---- MODULE Spec2Model ----
(***************************************************************************)
(* A model of the finance dashboard: the ledger merge, the keyword         *)
(* categorizer, the category store, the password-derived encryption layer  *)
(* and the storage access functions (src/src/data, src/src/utils,          *)
(* src/src/pages).                                                         *)
(*                                                                         *)
(* Python strings whose characters matter (descriptions, keywords,         *)
(* plaintexts) are sequences of Unicode code points.  Category names,      *)
(* usernames and passwords are TLA+ strings; the code only compares them,  *)
(* concatenates them into paths or, for usernames, encodes them (the       *)
(* characters of every username of the model are listed in Chars).         *)
(***************************************************************************)
EXTENDS Integers, Sequences, FiniteSets, TLC

VARIABLES
    call,      \* the function call under study in the function-level specifications
    ret,       \* what that call returned
    session,   \* st.session_state: username, is_guest, categories
    files,     \* the storage backend: path -> content (NoFile when absent)
    last       \* what the last handler did: its name, result and storage writes

vars == <<call, ret, session, files, last>>
mainVars == <<session, files, last>>

(***************************************************************************)
(* Bounds of the model.                                                    *)
(***************************************************************************)
MaxRows == 2        \* longest ledger / statement drawn as an input
MaxStrLen == 2      \* longest description / keyword drawn as an input
MaxCatRows == 1     \* longest frame given to the categorizer on its own
MaxPlainLen == 2    \* longest plaintext spelled out for encrypt_data
MaxUploadRows == 2  \* longest statement uploaded on the page
MaxLedgerRows == 2  \* uploads that would make the ledger longer are not taken
MaxKeywords == 2    \* keywords added to one category by direct calls
MaxParseRows == 2   \* longest statement given to load_statement on its own

(***************************************************************************)
(* Python str methods on code-point strings.                               *)
(***************************************************************************)
Uncategorized == "Uncategorized"

\* str.lower() on the characters of the model: 'A'..'Z' -> 'a'..'z'
lower(s) == [i \in DOMAIN s |-> IF s[i] >= 65 /\ s[i] <= 90 THEN s[i] + 32 ELSE s[i]]

IsSpace(c) == c \in {32, 9, 10, 13}

RECURSIVE lstrip(_)
lstrip(s) == IF s # <<>> /\ IsSpace(Head(s)) THEN lstrip(Tail(s)) ELSE s

RECURSIVE rstrip(_)
rstrip(s) ==
    IF s # <<>> /\ IsSpace(s[Len(s)]) THEN rstrip(SubSeq(s, 1, Len(s) - 1)) ELSE s

\* str.strip()
strip(s) == rstrip(lstrip(s))

\* the elements of a sequence
Range(s) == {s[i] : i \in DOMAIN s}

\* all sequences over S of length at most n
SeqsUpTo(S, n) == UNION {[1..k -> S] : k \in 0..n}

(***************************************************************************)
(* Ledger rows.  Date, Balance and Amount are numbers; Description is a    *)
(* code-point string; Category a category name; Hide a boolean.            *)
(***************************************************************************)
FullRow(type, product, d, desc, bal, amt, cat, hide) ==
    [Type |-> type, Product |-> product, Date |-> d, Description |-> desc,
     Balance |-> bal, Amount |-> amt, Category |-> cat, Hide |-> hide]

\* a card payment on the current account
Row(d, desc, bal, amt, cat, hide) ==
    FullRow("CARD_PAYMENT", "Current", d, desc, bal, amt, cat, hide)

\* subset=['Date', 'Description', 'Balance']
DedupKey(row) == <<row.Date, row.Description, row.Balance>>

\* a mutant: keep='last'
drop_duplicates_last(df) ==
    LET keep == {i \in DOMAIN df :
                    \A j \in (i + 1)..Len(df) : DedupKey(df[j]) # DedupKey(df[i])}
        F[i \in 0..Len(df)] ==
            IF i = 0 THEN <<>>
            ELSE IF i \in keep THEN Append(F[i - 1], df[i]) ELSE F[i - 1]
    IN  F[Len(df)]

\* a mutant: the duplicates are not dropped
drop_duplicates_none(df) == df

\* DataFrame.drop_duplicates(subset=['Date','Description','Balance'], keep='first')
drop_duplicates(df) ==
    LET keep == {i \in DOMAIN df :
                    \A j \in 1..(i - 1) : DedupKey(df[j]) # DedupKey(df[i])}
        F[i \in 0..Len(df)] ==
            IF i = 0 THEN <<>>
            ELSE IF i \in keep THEN Append(F[i - 1], df[i]) ELSE F[i - 1]
    IN  F[Len(df)]

\* merge_dataframes(main_df, new_df): (combined_df, num_new_rows)
merge_dataframes(main_df, new_df) ==
    LET combined_df == drop_duplicates(main_df \o new_df)
    IN  [df |-> combined_df, num_new_rows |-> Len(combined_df) - Len(main_df)]

(***************************************************************************)
(* The values the function-level specifications draw their inputs from.    *)
(***************************************************************************)
\* ord(ch) of the characters the inputs are made of
ord(ch) == CASE ch = "C" -> 67 [] ch = "c" -> 99 [] ch = " " -> 32

cC == ord("C")
cc == ord("c")
cSp == ord(" ")

\* keys that differ from the first one in exactly one column
MergeKeys ==
    {<<1, <<cc>>, 5>>, <<2, <<cc>>, 5>>, <<1, <<cC>>, 5>>, <<1, <<cc>>, 6>>}

\* each key with the row as parsed and with the row as the user edited it
MergeRows ==
    {Row(k[1], k[2], k[3], 1, Uncategorized, FALSE) : k \in MergeKeys}
        \cup {Row(k[1], k[2], k[3], 1, "Food", TRUE) : k \in MergeKeys}

MergeLedgers == SeqsUpTo(MergeRows, MaxRows)

NoCall == [op |-> "none"]
NoRet == [op |-> "none"]

(***************************************************************************)
(* The main system at rest, for the function-level specifications.         *)
(***************************************************************************)
NoUser == ""    \* st.session_state.username is None (as falsy as the empty string)

IdleMain ==
    /\ session = [username |-> NoUser]
    /\ files = <<>>
    /\ last = [op |-> "none"]

(***************************************************************************)
(* SpecMerge: merge_dataframes applied to a ledger L and a statement N,    *)
(* then to its own result and N again (a retried upload).                  *)
(***************************************************************************)
InitMerge ==
    /\ call \in [op : {"merge"}, L : MergeLedgers, N : MergeLedgers]
    /\ ret = NoRet
    /\ IdleMain

MergeFirst ==
    /\ call.op = "merge" /\ ret.op = "none"
    /\ ret' = [op |-> "merged", first |-> merge_dataframes(call.L, call.N)]
    /\ UNCHANGED <<call, mainVars>>

MergeAgain ==
    /\ ret.op = "merged"
    /\ ret' = [op |-> "remerged", first |-> ret.first,
               second |-> merge_dataframes(ret.first.df, call.N)]
    /\ UNCHANGED <<call, mainVars>>

NextMerge == MergeFirst \/ MergeAgain

SpecMerge == InitMerge /\ [][NextMerge]_vars

\* C1: merge_dataframes is idempotent: merging N into merge(L, N) again gives
\* the same ledger as merge(L, N), and the second merge reports 0 new rows.
C1_MergeIdempotent ==
    ret.op = "remerged" =>
        /\ ret.second.df = ret.first.df
        /\ ret.second.num_new_rows = 0

\* C1 witness: a retried upload whose first merge added a row to a ledger that
\* already held a row of the statement.
C1_Witness ==
    /\ ret.op = "remerged"
    /\ ret.first.num_new_rows > 0
    /\ \E i \in DOMAIN call.L : \E j \in DOMAIN call.N :
          DedupKey(call.L[i]) = DedupKey(call.N[j])

FirstWithKey(df, k) ==
    df[CHOOSE i \in DOMAIN df :
          /\ DedupKey(df[i]) = k
          /\ \A j \in 1..(i - 1) : DedupKey(df[j]) # k]

\* C2: a row of the new statement with the (Date, Description, Balance) of an
\* existing row collapses to the existing ledger's row: the merged ledger has one
\* row with that key and it carries the existing row's Category and Hide.
C2_ExistingRowWins ==
    ret.op = "merged" =>
        \A j \in DOMAIN call.N :
            LET k == DedupKey(call.N[j]) IN
            (\E i \in DOMAIN call.L : DedupKey(call.L[i]) = k) =>
                /\ Cardinality({m \in DOMAIN ret.first.df :
                                   DedupKey(ret.first.df[m]) = k}) = 1
                /\ \A m \in DOMAIN ret.first.df :
                      DedupKey(ret.first.df[m]) = k =>
                          /\ ret.first.df[m].Category = FirstWithKey(call.L, k).Category
                          /\ ret.first.df[m].Hide = FirstWithKey(call.L, k).Hide

\* C2 witness: the statement re-uploads a row the user had re-categorized and
\* hidden, and the merge has run.
C2_Witness ==
    /\ ret.op = "merged"
    /\ \E i \in DOMAIN call.L : \E j \in DOMAIN call.N :
          /\ DedupKey(call.L[i]) = DedupKey(call.N[j])
          /\ call.L[i].Category = "Food" /\ call.L[i].Hide
          /\ call.N[j].Category = Uncategorized /\ ~call.N[j].Hide

(***************************************************************************)
(* The Category Store: st.session_state.categories, a dict, which keeps    *)
(* insertion order: a sequence of [name, keywords] with distinct names.    *)
(***************************************************************************)
Cat(name, keywords) == [name |-> name, keywords |-> keywords]

CatNames(categories) == {categories[i].name : i \in DOMAIN categories}

\* categories.get(category, [])
CatGet(categories, category) ==
    IF category \in CatNames(categories)
    THEN (CHOOSE c \in Range(categories) : c.name = category).keywords
    ELSE <<>>

\* lowered_keywords = [keyword.lower().strip() for keyword in keywords]
lowered_keywords(keywords) == [i \in DOMAIN keywords |-> strip(lower(keywords[i]))]

\* s occurs in t as a contiguous substring
IsSubstring(s, t) ==
    \E i \in 0..(Len(t) - Len(s)) : SubSeq(t, i + 1, i + Len(s)) = s

\* a mutant: a keyword matches when the description contains it
categorize_transactions_substring(df, categories) ==
    LET Step(frame, c) ==
            IF c.name = Uncategorized \/ c.keywords = <<>> THEN frame
            ELSE [i \in DOMAIN frame |->
                    IF \E kw \in Range(lowered_keywords(c.keywords)) :
                           IsSubstring(kw, strip(lower(frame[i].Description)))
                    THEN [frame[i] EXCEPT !.Category = c.name]
                    ELSE frame[i]]
        F[n \in 0..Len(categories)] ==
            IF n = 0 THEN [i \in DOMAIN df |-> [df[i] EXCEPT !.Category = Uncategorized]]
            ELSE Step(F[n - 1], categories[n])
    IN  F[Len(categories)]

\* categorize_transactions(df) with st.session_state.categories = categories:
\* the outer loop runs over the categories in insertion order, the inner one over
\* the rows, and a matching row's Category is overwritten.
categorize_transactions(df, categories) ==
    LET Step(frame, c) ==
            IF c.name = Uncategorized \/ c.keywords = <<>> THEN frame
            ELSE [i \in DOMAIN frame |->
                    IF strip(lower(frame[i].Description))
                           \in Range(lowered_keywords(c.keywords))
                    THEN [frame[i] EXCEPT !.Category = c.name]
                    ELSE frame[i]]
        F[n \in 0..Len(categories)] ==
            IF n = 0 THEN [i \in DOMAIN df |-> [df[i] EXCEPT !.Category = Uncategorized]]
            ELSE Step(F[n - 1], categories[n])
    IN  F[Len(categories)]

(***************************************************************************)
(* SpecCat: categorize_transactions applied to a frame under a store.      *)
(***************************************************************************)
Strings == SeqsUpTo({cc, cC, cSp}, MaxStrLen)

CatKeywordLists == {<<>>, <<<<cc>>>>, <<<<cC, cSp>>>>, <<<<cc, cc>>, <<cc>>>>}

CatNameOrders ==
    {o \in SeqsUpTo({Uncategorized, "A", "B"}, 3) :
        \A i, j \in DOMAIN o : i # j => o[i] # o[j]}

CatStores ==
    UNION {{[i \in DOMAIN o |-> Cat(o[i], kws[i])] :
               kws \in [DOMAIN o -> CatKeywordLists]} : o \in CatNameOrders}

CatFrames ==
    SeqsUpTo({Row(1, d, 5, 1, Uncategorized, FALSE) : d \in Strings}, MaxCatRows)

InitCat ==
    /\ call \in [op : {"categorize"}, df : CatFrames, categories : CatStores]
    /\ ret = NoRet
    /\ IdleMain

Categorize ==
    /\ call.op = "categorize" /\ ret.op = "none"
    /\ ret' = [op |-> "categorized",
               df |-> categorize_transactions(call.df, call.categories)]
    /\ UNCHANGED <<call, mainVars>>

NextCat == Categorize

SpecCat == InitCat /\ [][NextCat]_vars

\* the trimmed, lower-cased description equals the trimmed, lower-cased form of
\* some keyword of category c
KeywordMatch(c, description) ==
    \E i \in DOMAIN c.keywords :
        strip(lower(c.keywords[i])) = strip(lower(description))

\* C4: when the description matches a keyword of more than one category, the
\* first such category in the store's insertion order is assigned.
C4_FirstMatchWins ==
    ret.op = "categorized" =>
        \A r \in DOMAIN ret.df :
            \A n \in DOMAIN call.categories :
                LET c == call.categories[n] IN
                ( /\ c.name # Uncategorized
                  /\ KeywordMatch(c, call.df[r].Description)
                  /\ \A m \in 1..(n - 1) :
                        \/ call.categories[m].name = Uncategorized
                        \/ ~KeywordMatch(call.categories[m], call.df[r].Description) )
                => ret.df[r].Category = c.name

\* C5: every transaction gets one category: a category C other than
\* Uncategorized only if the normalized description equals a normalized keyword
\* of C, and Uncategorized exactly when no other category has such a keyword;
\* the keywords stored under Uncategorized are never matched.
C5_ExactMatchOnly ==
    ret.op = "categorized" =>
        /\ Len(ret.df) = Len(call.df)
        /\ \A r \in DOMAIN ret.df :
              LET row == ret.df[r]
                  matching == {c \in Range(call.categories) :
                                  /\ c.name # Uncategorized
                                  /\ KeywordMatch(c, call.df[r].Description)}
              IN  /\ row.Category # Uncategorized =>
                        \E c \in matching : c.name = row.Category
                  /\ row.Category = Uncategorized <=> matching = {}

\* C5 witness: a description that contains a keyword of a category without being
\* equal to it, and that equals a keyword stored under Uncategorized, has been
\* categorized, as Uncategorized.
C5_Witness ==
    /\ ret.op = "categorized"
    /\ \E r \in DOMAIN ret.df :
          /\ \E c \in Range(call.categories) :
                /\ c.name # Uncategorized
                /\ ~KeywordMatch(c, call.df[r].Description)
                /\ \E kw \in Range(c.keywords) :
                      IsSubstring(strip(lower(kw)), strip(lower(call.df[r].Description)))
          /\ \E c \in Range(call.categories) :
                c.name = Uncategorized /\ KeywordMatch(c, call.df[r].Description)
          /\ ret.df[r].Category = Uncategorized


(***************************************************************************)
(* Python values of the encryption layer.  A str is a text: the characters *)
(* the model spells out (chars, code points) followed by a document whose  *)
(* characters are not spelled out (doc: a ledger, a category store, or     *)
(* NoDoc).  bytes are the same with the characters encoded.                *)
(***************************************************************************)
NoneVal == [kind |-> "None"]
NoDoc == [kind |-> "nodoc"]
Text(chars, doc) == [kind |-> "text", chars |-> chars, doc |-> doc]
Str(chars) == Text(chars, NoDoc)

\* one code point in UTF-8; the surrogates cannot be encoded
Utf8Char(cp) ==
    IF cp < 128 THEN <<cp>>
    ELSE IF cp < 2048 THEN <<192 + (cp \div 64), 128 + (cp % 64)>>
    ELSE IF cp < 65536
         THEN <<224 + (cp \div 4096), 128 + ((cp \div 64) % 64), 128 + (cp % 64)>>
    ELSE <<240 + (cp \div 262144), 128 + ((cp \div 4096) % 64),
           128 + ((cp \div 64) % 64), 128 + (cp % 64)>>

RECURSIVE Utf8Encode(_)
Utf8Encode(chars) ==
    IF chars = <<>> THEN <<>> ELSE Utf8Char(Head(chars)) \o Utf8Encode(Tail(chars))

IsCont(b) == b >= 128 /\ b < 192

\* bytes -> code points, or "invalid" (UnicodeDecodeError)
RECURSIVE Utf8Decode(_)
Utf8Decode(bytes) ==
    IF bytes = <<>> THEN <<>>
    ELSE LET b == Head(bytes)
             n == IF b < 128 THEN 1
                  ELSE IF b >= 194 /\ b < 224 THEN 2
                  ELSE IF b >= 224 /\ b < 240 THEN 3
                  ELSE IF b >= 240 /\ b < 245 THEN 4
                  ELSE 0
         IN  IF n = 0 \/ Len(bytes) < n
                  \/ \E i \in 2..n : ~IsCont(bytes[i])
             THEN "invalid"
             ELSE LET cp == IF n = 1 THEN b
                            ELSE IF n = 2 THEN (b - 192) * 64 + (bytes[2] - 128)
                            ELSE IF n = 3
                                 THEN (b - 224) * 4096 + (bytes[2] - 128) * 64
                                          + (bytes[3] - 128)
                            ELSE (b - 240) * 262144 + (bytes[2] - 128) * 4096
                                     + (bytes[3] - 128) * 64 + (bytes[4] - 128)
                      rest == Utf8Decode(SubSeq(bytes, n + 1, Len(bytes)))
                      overlong == \/ (n = 3 /\ cp < 2048)
                                  \/ (n = 4 /\ cp < 65536)
                                  \/ (cp >= 55296 /\ cp < 57344)
                  IN  IF overlong \/ rest = "invalid" THEN "invalid"
                      ELSE <<cp>> \o rest

\* str.encode('utf-8')
str_encode(text) ==
    [kind |-> "bytes", bytes |-> Utf8Encode(text.chars), doc |-> text.doc]

\* bytes.decode('utf-8'); NoneVal stands for the UnicodeDecodeError
bytes_decode(b) ==
    IF Utf8Decode(b.bytes) = "invalid" THEN NoneVal
    ELSE Text(Utf8Decode(b.bytes), b.doc)

(***************************************************************************)
(* Usernames are TLA+ strings; Chars spells the ones the model uses.       *)
(***************************************************************************)
Admin == "admin"
Guest == "guest"
LongNameB == "aaaaaaaaaaaaaaaab"
LongNameC == "aaaaaaaaaaaaaaaac"
ZoeName == "zoe, the e with a diaeresis"   \* stands for 'zo' followed by U+00EB

Chars(u) ==
    CASE u = "admin" -> <<97, 100, 109, 105, 110>>
      [] u = "guest" -> <<103, 117, 101, 115, 116>>
      [] u = "alice" -> <<97, 108, 105, 99, 101>>
      [] u = "bob" -> <<98, 111, 98>>
      [] u = "bob0" -> <<98, 111, 98, 48>>
      [] u = "main" -> <<109, 97, 105, 110>>
      [] u = ZoeName -> <<122, 111, 235>>
      [] u = LongNameB -> [i \in 1..17 |-> IF i = 17 THEN 98 ELSE 97]
      [] u = LongNameC -> [i \in 1..17 |-> IF i = 17 THEN 99 ELSE 97]

SaltLen == 16
PadByte == 48   \* b'0'

\* bytes[:n]
Take(b, n) == SubSeq(b, 1, IF Len(b) < n THEN Len(b) ELSE n)

\* bytes.ljust(n, fill)
RECURSIVE ljust(_, _, _)
ljust(b, n, fill) == IF Len(b) >= n THEN b ELSE ljust(Append(b, fill), n, fill)

(***************************************************************************)
(* Password hashes.  PBKDF2-HMAC-SHA256 is a symbolic function of its      *)
(* inputs: two digests are equal exactly when their inputs are.            *)
(***************************************************************************)
Pbkdf2(secret, salt) == [kind |-> "pbkdf2", secret |-> secret, salt |-> salt]

\* hash_password(password), with salt = secrets.token_hex(16)
hash_password(password, salt) ==
    [kind |-> "pwhash", salt |-> salt, digest |-> Pbkdf2(password, salt)]

\* verify_password: stored_password[:32] is the salt, the rest the digest
verify_password(stored_password, provided_password) ==
    stored_password.digest = Pbkdf2(provided_password, stored_password.salt)

\* a mutant: the username does not enter the key
derive_key_from_password_nosalt(username, password_hash) ==
    [kind |-> "key", key |-> Pbkdf2(password_hash, <<>>)]

\* derive_key_from_password: salt = username.encode('utf-8')[:16].ljust(16, b'0')
derive_key_from_password(username, password_hash) ==
    LET salt == ljust(Take(Utf8Encode(Chars(username)), SaltLen), SaltLen, PadByte)
    IN  [kind |-> "key", key |-> Pbkdf2(password_hash, salt)]

(***************************************************************************)
(* Fernet.  A token holds the key it was made with (the HMAC verifies      *)
(* under that key only), the random IV and the message bytes.              *)
(***************************************************************************)
\* encrypt_data: base64.b64encode(Fernet(key).encrypt(data.encode('utf-8')))
encrypt_data(data, key, iv) ==
    [kind |-> "b64",
     of |-> [kind |-> "fernet", key |-> key, iv |-> iv, msg |-> str_encode(data)]]

\* a mutant: the token is not authenticated against the key
decrypt_data_anykey(encrypted_data, key) ==
    IF encrypted_data.kind = "b64" THEN bytes_decode(encrypted_data.of.msg)
    ELSE NoneVal

\* decrypt_data: any exception (not base64, InvalidToken, UnicodeDecodeError)
\* gives None
decrypt_data(encrypted_data, key) ==
    IF encrypted_data.kind = "b64" /\ encrypted_data.of.key = key
    THEN bytes_decode(encrypted_data.of.msg)
    ELSE NoneVal

(***************************************************************************)
(* SpecCrypto: encrypt_data under k1, then decrypt_data under k1 and k2.   *)
(***************************************************************************)
Salts == {"s1", "s2"}
Passwords == {"pw1", "pw2"}
IVs == {1, 2}

PlainChars == {99, 233, 8364}     \* 'c', e-acute, euro sign: 1, 2 and 3 bytes
Plaintexts == {Str(c) : c \in SeqsUpTo(PlainChars, MaxPlainLen)}

CryptoUsers == {"alice", "bob"}
PwHashes == {hash_password(p, s) : p \in Passwords, s \in Salts}
CryptoKeys == {derive_key_from_password(u, h) : u \in CryptoUsers, h \in PwHashes}

InitCrypto ==
    /\ call \in [op : {"crypt"}, p : Plaintexts, k1 : CryptoKeys, k2 : CryptoKeys,
                 iv : IVs]
    /\ ret = NoRet
    /\ IdleMain

Encrypt ==
    /\ call.op = "crypt" /\ ret.op = "none"
    /\ ret' = [op |-> "encrypted", blob |-> encrypt_data(call.p, call.k1, call.iv)]
    /\ UNCHANGED <<call, mainVars>>

Decrypt ==
    /\ ret.op = "encrypted"
    /\ ret' = [op |-> "decrypted", blob |-> ret.blob,
               same |-> decrypt_data(ret.blob, call.k1),
               other |-> decrypt_data(ret.blob, call.k2)]
    /\ UNCHANGED <<call, mainVars>>

NextCrypto == Encrypt \/ Decrypt

SpecCrypto == InitCrypto /\ [][NextCrypto]_vars

\* C8: decrypt_data(encrypt_data(p, k), k) = p, and under a different key
\* decrypt_data returns None, never a plaintext.
C8_RoundTrip ==
    ret.op = "decrypted" =>
        /\ ret.same = call.p
        /\ call.k1 # call.k2 => ret.other = NoneVal

\* C8 witness: a plaintext with multi-byte characters has been encrypted and then
\* decrypted under the same and under another key.
C8_Witness ==
    /\ ret.op = "decrypted"
    /\ call.k1 # call.k2
    /\ \E i \in DOMAIN call.p.chars : call.p.chars[i] > 127
    /\ ret.same = call.p

(***************************************************************************)
(* SpecKey: derive_key_from_password on two (username, hash) pairs.        *)
(***************************************************************************)
KeyUsers == {"alice", "bob", "bob0", ZoeName, LongNameB, LongNameC}

InitKey ==
    /\ call \in [op : {"derive"}, u1 : KeyUsers, h1 : PwHashes, u2 : KeyUsers,
                 h2 : PwHashes]
    /\ ret = NoRet
    /\ IdleMain

Derive ==
    /\ call.op = "derive" /\ ret.op = "none"
    /\ ret' = [op |-> "derived",
               k1 |-> derive_key_from_password(call.u1, call.h1),
               k2 |-> derive_key_from_password(call.u2, call.h2)]
    /\ UNCHANGED <<call, mainVars>>

NextKey == Derive

SpecKey == InitKey /\ [][NextKey]_vars

\* C9 as claimed: two (username, hash) pairs that differ in the username or in
\* the hash derive different keys.
C9_AnyChangeChangesKey ==
    ret.op = "derived" =>
        ((call.u1 # call.u2 \/ call.h1 # call.h2) => ret.k1 # ret.k2)

\* the first 16 bytes of the username in UTF-8, '0' where it has fewer
SaltBytes(u) ==
    LET b == Utf8Encode(Chars(u))
    IN  [i \in 1..16 |-> IF i <= Len(b) THEN b[i] ELSE 48]

\* C9 as amended: the derived keys differ exactly when the hashes differ or the
\* usernames differ in their first 16 UTF-8 bytes after padding with '0'.
C9_KeyFollowsSaltAndHash ==
    ret.op = "derived" =>
        (ret.k1 # ret.k2 <=>
            (call.h1 # call.h2 \/ SaltBytes(call.u1) # SaltBytes(call.u2)))

\* C9 witness: two usernames that differ in their first 16 bytes, the same hash,
\* and the keys derived.
C9_Witness ==
    /\ ret.op = "derived"
    /\ call.h1 = call.h2
    /\ call.u1 = "alice" /\ call.u2 = "bob"
    /\ ret.k1 # ret.k2


(***************************************************************************)
(* The storage backend (a GitHub repository): files maps the paths that    *)
(* exist to their contents.  A content is a text or the base64 text of a   *)
(* Fernet token.  Every API call may fail; the handlers take the outcome   *)
(* of their calls as parameters.                                           *)
(***************************************************************************)
UsersPath == "data/users.json"
NoFile == [kind |-> "nofile"]

\* get_user_files
get_user_files(username) ==
    IF username = Admin
    THEN [dataframe |-> "data/dataframes/main_dataframe.csv",
          categories |-> "data/categories/categories.json"]
    ELSE [dataframe |-> "data/dataframes/" \o username \o "_dataframe.csv",
          categories |-> "data/categories/" \o username \o "_categories.json"]

FileAt(fs, path) == IF path \in DOMAIN fs THEN fs[path] ELSE NoFile

\* the documents whose characters are not spelled out
CsvDoc(df) == [kind |-> "csv", body |-> df, looks64 |-> FALSE]
CategoriesDoc(categories) == [kind |-> "categories", body |-> categories, looks64 |-> FALSE]
UsersDoc(users) == [kind |-> "users", body |-> users, looks64 |-> FALSE]

\* df.to_csv(index=False), json.dumps(categories), json.dumps(users)
to_csv(df) == Text(<<>>, CsvDoc(df))
json_dumps(doc) == Text(<<>>, doc)

DefaultCategories == <<Cat(Uncategorized, <<>>)>>

\* bool(value) of a str or None
Truthy(v) == v.kind = "b64" \/ (v.kind = "text" /\ (v.chars # <<>> \/ v.doc # NoDoc))

\* the outcomes of the API calls of one run <<read, key read, write>>: all
\* succeed, or the calls of one kind fail
ApiOutcomes ==
    {<<TRUE, TRUE, TRUE>>, <<FALSE, TRUE, TRUE>>, <<TRUE, FALSE, TRUE>>,
     <<TRUE, TRUE, FALSE>>}

\* read_github_file(file_path); ok: the API call succeeds
read_github_file(sess, fs, file_path, ok) ==
    IF ~sess.github_repo THEN NoneVal
    ELSE IF ~ok \/ FileAt(fs, file_path) = NoFile THEN NoneVal
    ELSE FileAt(fs, file_path)

\* write_github_file: update_file on the existing file, else create_file
write_github_file(sess, fs, file_path, content, ok) ==
    IF ~sess.github_repo THEN [ok |-> FALSE, files |-> fs, writes |-> <<>>]
    ELSE IF ~ok THEN [ok |-> FALSE, files |-> fs, writes |-> <<file_path>>]
    ELSE [ok |-> TRUE, files |-> (file_path :> content) @@ fs, writes |-> <<file_path>>]

\* is_encrypted_data: len % 4 == 0, decodes as base64 to more than 50 bytes.
\* The output of encrypt_data always does; a text of the model spelled out in
\* chars is too short; a document does when its text happens to (looks64).
is_encrypted_data(data) ==
    \/ data.kind = "b64"
    \/ data.kind = "text" /\ data.doc # NoDoc /\ data.doc.looks64

\* get_user_encryption_key(username); okKey: reading data/users.json succeeds
get_user_encryption_key(sess, fs, username, okKey) ==
    IF username = Admin THEN NoneVal
    ELSE IF sess.username = NoUser \/ sess.username # username THEN NoneVal
    ELSE IF ~sess.github_repo THEN NoneVal
    ELSE LET users_content == FileAt(fs, UsersPath) IN
         IF ~okKey \/ users_content = NoFile THEN NoneVal
         ELSE IF users_content.kind # "text" \/ users_content.doc.kind # "users"
              THEN NoneVal
         ELSE IF username \in DOMAIN users_content.doc.body
              THEN derive_key_from_password(username,
                                            users_content.doc.body[username].password)
         ELSE NoneVal

\* a mutant: a blob that does not decrypt is given up
read_encrypted_nofallback(sess, fs, file_path, username, okRead, okKey) ==
    IF ~sess.github_repo THEN NoneVal
    ELSE IF \/ sess.username = NoUser
            \/ (sess.username # username /\ sess.username # Admin /\ username # Admin)
         THEN NoneVal
    ELSE LET content == FileAt(fs, file_path) IN
         IF ~okRead \/ content = NoFile THEN NoneVal
         ELSE IF username = Admin THEN content
         ELSE IF ~is_encrypted_data(content) THEN content
         ELSE LET encryption_key == get_user_encryption_key(sess, fs, username, okKey)
              IN  IF encryption_key # NoneVal
                  THEN decrypt_data(content, encryption_key)
                  ELSE NoneVal

\* read_encrypted_github_file(file_path, username)
read_encrypted_github_file(sess, fs, file_path, username, okRead, okKey) ==
    IF ~sess.github_repo THEN NoneVal
    ELSE IF \/ sess.username = NoUser
            \/ (sess.username # username /\ sess.username # Admin /\ username # Admin)
         THEN NoneVal
    ELSE LET content == FileAt(fs, file_path) IN
         IF ~okRead \/ content = NoFile THEN NoneVal
         ELSE IF username = Admin THEN content
         ELSE IF ~is_encrypted_data(content) THEN content
         ELSE LET encryption_key == get_user_encryption_key(sess, fs, username, okKey)
              IN  IF encryption_key # NoneVal
                  THEN LET decrypted_data == decrypt_data(content, encryption_key)
                       IN  IF decrypted_data # NoneVal THEN decrypted_data ELSE content
                  ELSE NoneVal

\* a mutant: the caller is not compared with the owner
write_encrypted_anycaller(sess, fs, file_path, content, username, iv, okKey, okWrite) ==
    IF ~sess.github_repo THEN [ok |-> FALSE, files |-> fs, writes |-> <<>>]
    ELSE IF username = Admin
         THEN write_github_file(sess, fs, file_path, content, okWrite)
    ELSE LET encryption_key ==
                 get_user_encryption_key([sess EXCEPT !.username = username], fs,
                                         username, okKey)
         IN  IF encryption_key # NoneVal
             THEN write_github_file(sess, fs, file_path,
                                    encrypt_data(content, encryption_key, iv), okWrite)
             ELSE [ok |-> FALSE, files |-> fs, writes |-> <<>>]

\* write_encrypted_github_file(file_path, content, commit_message, username)
write_encrypted_github_file(sess, fs, file_path, content, username, iv, okKey, okWrite) ==
    IF ~sess.github_repo THEN [ok |-> FALSE, files |-> fs, writes |-> <<>>]
    ELSE IF sess.username = NoUser \/ sess.username # username
         THEN [ok |-> FALSE, files |-> fs, writes |-> <<>>]
    ELSE IF username = Admin
         THEN write_github_file(sess, fs, file_path, content, okWrite)
    ELSE LET encryption_key == get_user_encryption_key(sess, fs, username, okKey)
         IN  IF encryption_key # NoneVal
             THEN write_github_file(sess, fs, file_path,
                                    encrypt_data(content, encryption_key, iv), okWrite)
             ELSE [ok |-> FALSE, files |-> fs, writes |-> <<>>]

\* the username occurs in the path (username in file_path): the model asks it of
\* the user's own paths, which are built from the username
UsernameInPath(username, file_path) ==
    file_path \in {get_user_files(username).dataframe,
                   get_user_files(username).categories}

\* ensure_github_file_exists(file_path, default_content)
ensure_github_file_exists(sess, fs, file_path, default_content, iv, okRead, okKey, okWrite) ==
    IF ~sess.github_repo THEN [ok |-> FALSE, files |-> fs, writes |-> <<>>]
    ELSE IF okRead /\ FileAt(fs, file_path) # NoFile
         THEN [ok |-> TRUE, files |-> fs, writes |-> <<>>]
    ELSE LET encryption_key ==
                 get_user_encryption_key(sess, fs, sess.username, okKey)
             final_content ==
                 IF /\ sess.username # NoUser
                    /\ sess.username # Admin
                    /\ sess.username # Guest
                    /\ UsernameInPath(sess.username, file_path)
                    /\ encryption_key # NoneVal
                 THEN encrypt_data(default_content, encryption_key, iv)
                 ELSE default_content
         IN  \* create_file fails on a path that exists
             IF ~okWrite \/ FileAt(fs, file_path) # NoFile
             THEN [ok |-> FALSE, files |-> fs, writes |-> <<file_path>>]
             ELSE [ok |-> TRUE, files |-> (file_path :> final_content) @@ fs,
                   writes |-> <<file_path>>]

(***************************************************************************)
(* Sessions.                                                               *)
(***************************************************************************)
\* initialize_session_state
NewSession(repo) ==
    [github_repo |-> repo, logged_in |-> FALSE, username |-> NoUser,
     is_guest |-> FALSE, categories |-> DefaultCategories,
     guest_dataframe |-> NoneVal]

\* authenticate_user(username, password)
authenticate_user(sess, fs, username, password, okRead) ==
    IF username = "" \/ password = "" THEN FALSE
    ELSE LET users_content == read_github_file(sess, fs, UsersPath, okRead) IN
         IF ~Truthy(users_content) THEN FALSE
         ELSE IF users_content.kind # "text" \/ users_content.doc.kind # "users"
              THEN FALSE
         ELSE IF username \in DOMAIN users_content.doc.body
              THEN verify_password(users_content.doc.body[username].password, password)
         ELSE FALSE

\* load_user_data(username): the categories of the session, and the storage
\* after ensure_github_file_exists
load_user_data(sess, fs, username, iv, okRead, okKey, okWrite) ==
    IF sess.is_guest
    THEN [categories |-> DefaultCategories, files |-> fs, writes |-> <<>>]
    ELSE LET path == get_user_files(username).categories
             categories_content ==
                 read_encrypted_github_file(sess, fs, path, username, okRead, okKey)
         IN  IF Truthy(categories_content)
             THEN [categories |->
                       IF categories_content.kind = "text"
                              /\ categories_content.doc.kind = "categories"
                       THEN categories_content.doc.body
                       ELSE DefaultCategories,
                   files |-> fs, writes |-> <<>>]
             ELSE LET e == ensure_github_file_exists(
                               sess, fs, path, json_dumps(CategoriesDoc(DefaultCategories)),
                               iv, okRead, okKey, okWrite)
                  IN  [categories |-> DefaultCategories, files |-> e.files,
                       writes |-> e.writes]

\* login_page, the Login form
Login(username, password, iv, okRead, okKey, okWrite) ==
    /\ ~session.logged_in
    /\ IF authenticate_user(session, files, username, password, okRead)
       THEN LET sess == [session EXCEPT !.logged_in = TRUE, !.username = username,
                                        !.is_guest = FALSE]
                loaded == load_user_data(sess, files, username, iv, okRead, okKey, okWrite)
            IN  /\ session' = [sess EXCEPT !.categories = loaded.categories]
                /\ files' = loaded.files
                /\ last' = [op |-> "login", result |-> "True", writes |-> loaded.writes]
       ELSE /\ last' = [op |-> "login", result |-> "False", writes |-> <<>>]
            /\ UNCHANGED <<session, files>>
    /\ UNCHANGED <<call, ret>>

\* login_page, Continue as Guest
GuestLogin ==
    /\ ~session.logged_in
    /\ session' = [session EXCEPT !.logged_in = TRUE, !.username = Guest,
                                  !.is_guest = TRUE, !.categories = DefaultCategories]
    /\ last' = [op |-> "guest", result |-> "True", writes |-> <<>>]
    /\ UNCHANGED <<files, call, ret>>

\* main_sidebar, Logout
Logout ==
    /\ session.logged_in
    /\ session' = NewSession(session.github_repo)
    /\ last' = [op |-> "logout", result |-> "True", writes |-> <<>>]
    /\ UNCHANGED <<files, call, ret>>

(***************************************************************************)
(* SpecAccess: the storage holds blobs of alice, bob and the admin; any of *)
(* them, a guest or nobody is logged in, and read_encrypted_github_file is *)
(* called for any path and any username.                                   *)
(***************************************************************************)
HashAlice == hash_password("pw1", "s1")
HashBob == hash_password("pw2", "s2")
HashAdmin == hash_password("pw1", "s2")

Users0 ==
    [u \in {"alice", "bob", Admin} |->
        [password |-> CASE u = "alice" -> HashAlice [] u = "bob" -> HashBob
                         [] u = Admin -> HashAdmin]]

KeyAlice == derive_key_from_password("alice", HashAlice)
KeyBob == derive_key_from_password("bob", HashBob)

AccessFiles ==
    (UsersPath :> json_dumps(UsersDoc(Users0)))
    @@ (get_user_files("alice").categories :>
            encrypt_data(json_dumps(CategoriesDoc(DefaultCategories)), KeyAlice, 1))
    @@ (get_user_files("bob").categories :> Str(<<123, 125>>))
    @@ (get_user_files(Admin).categories :>
            json_dumps(CategoriesDoc(<<Cat(Uncategorized, <<>>), Cat("A", <<<<cc>>>>)>>)))
    @@ (get_user_files(Admin).dataframe :>
            to_csv(<<Row(1, <<cc>>, 5, 1, "A", FALSE)>>))

AccessUsers == {"alice", "bob", Admin, Guest}
AccessPaths ==
    {UsersPath} \cup {get_user_files(u).categories : u \in AccessUsers}
        \cup {get_user_files(u).dataframe : u \in AccessUsers}

InitAccess ==
    /\ call = NoCall
    /\ ret = NoRet
    /\ session \in {NewSession(repo) : repo \in BOOLEAN}
    /\ files = AccessFiles
    /\ last = [op |-> "none"]

\* a call of read_encrypted_github_file(file_path, username) in the session
ReadEncrypted(file_path, username, okRead, okKey) ==
    /\ last' = [op |-> "read", path |-> file_path, username |-> username,
                identity |-> session.username, okRead |-> okRead, okKey |-> okKey,
                result |-> read_encrypted_github_file(session, files, file_path,
                                                      username, okRead, okKey)]
    /\ UNCHANGED <<session, files, call, ret>>

NextAccess ==
    \/ \E u \in AccessUsers, pw \in Passwords, iv \in IVs,
          okRead, okKey, okWrite \in BOOLEAN :
          Login(u, pw, iv, okRead, okKey, okWrite)
    \/ GuestLogin
    \/ Logout
    \/ \E path \in AccessPaths, u \in AccessUsers, okRead, okKey \in BOOLEAN :
          ReadEncrypted(path, u, okRead, okKey)

SpecAccess == InitAccess /\ [][NextAccess]_vars

\* C10: read_encrypted_github_file(path, username) returns None whenever the
\* logged-in identity is neither that username nor the admin, and whenever nobody
\* is logged in, for every target username, the admin's included.
C10_ReadRefusedForNonOwner ==
    last.op = "read" =>
        ( ( \/ last.identity = NoUser
            \/ (last.identity # last.username /\ last.identity # Admin) )
          => last.result = NoneVal )


(***************************************************************************)
(* SpecWrite: the storage holds the blobs of SpecAccess; any of the users, *)
(* a guest or nobody is logged in, and write_encrypted_github_file is      *)
(* called for a path, a content and any username.                          *)
(***************************************************************************)
WritePaths ==
    {get_user_files("alice").dataframe, get_user_files("bob").categories,
     get_user_files(Admin).dataframe}

WriteContents == {to_csv(<<Row(2, <<cc>>, 5, 1, Uncategorized, FALSE)>>)}

\* a call of write_encrypted_github_file(file_path, content, msg, username)
WriteEncrypted(file_path, content, username, iv, okKey, okWrite) ==
    /\ \E written \in {write_encrypted_github_file(session, files, file_path, content,
                                                   username, iv, okKey, okWrite)} :
          /\ files' = written.files
          /\ last' = [op |-> "write", path |-> file_path, username |-> username,
                      content |-> content, identity |-> session.username,
                      okKey |-> okKey, result |-> written.ok,
                      writes |-> written.writes, before |-> files]
    /\ UNCHANGED <<session, call, ret>>

NextWrite ==
    \/ \E u \in AccessUsers, pw \in Passwords, ok \in ApiOutcomes :
          Login(u, pw, 1, ok[1], ok[2], ok[3])
    \/ GuestLogin
    \/ Logout
    \/ \E path \in WritePaths, content \in WriteContents, u \in AccessUsers,
          iv \in IVs, okKey, okWrite \in BOOLEAN :
          WriteEncrypted(path, content, u, iv, okKey, okWrite)

SpecWrite == InitAccess /\ [][NextWrite]_vars

\* the password hash committed for username in data/users.json, NoneVal without
StoredHash(fs, username) ==
    LET users_content == FileAt(fs, UsersPath) IN
    IF users_content.kind = "text" /\ users_content.doc.kind = "users"
           /\ username \in DOMAIN users_content.doc.body
    THEN users_content.doc.body[username].password
    ELSE NoneVal

\* C11: write_encrypted_github_file writes nothing and returns False whenever the
\* logged-in identity differs from username (the admin as a caller included) or
\* no key can be obtained for a non-admin user; and what it stores for a non-admin
\* user is encrypt_data of the content under the key derived from the password
\* hash stored for that user.
C11_WriteOnlyByOwnerEncrypted ==
    last.op = "write" =>
        LET nokey == \/ ~last.okKey
                     \/ StoredHash(last.before, last.username) = NoneVal
        IN  /\ ( \/ last.identity # last.username
                 \/ (last.username # Admin /\ nokey) )
                  => /\ ~last.result
                     /\ last.writes = <<>>
                     /\ files = last.before
            /\ (last.username # Admin /\ files # last.before)
                  => \E iv \in IVs :
                        files = (last.path :>
                                    encrypt_data(last.content,
                                        derive_key_from_password(last.username,
                                            StoredHash(last.before, last.username)),
                                        iv)) @@ last.before

\* C11 witness: bob, logged in, has stored a blob under his key over one that
\* was there as plaintext, and a write for bob by another identity was refused.
C11_Witness ==
    /\ last.op = "write"
    /\ last.username = "bob"
    /\ last.identity = "alice"
    /\ ~last.result
    /\ FileAt(files, get_user_files("bob").categories).kind = "b64"
    /\ FileAt(files, get_user_files("bob").categories).of.key = KeyBob


(***************************************************************************)
(* The statement parser.  An uploaded file is its set of column names, its *)
(* rows as read by pd.read_csv and the currency detect_currency_from_df    *)
(* finds.  A Started Date is [ok, val] (ok: pd.to_datetime parses it), a   *)
(* Balance is [num, val] (num: pd.to_numeric parses it).  Amounts are      *)
(* whole numbers, which the rounding leaves as they are.                   *)
(***************************************************************************)
RequiredColumns == {"Type", "Started Date", "Description", "Product", "Amount", "Balance"}

RawRow(type, date, desc, product, amt, bal) ==
    [Type |-> type, StartedDate |-> date, Description |-> desc, Product |-> product,
     Amount |-> amt, Balance |-> bal]

\* a Started Date that pd.to_datetime parses or not; a Balance that
\* pd.to_numeric gives a number or NaN
GoodDate(d) == [ok |-> TRUE, val |-> d]
BadDate == [ok |-> FALSE, val |-> 0]
Num(n) == [num |-> TRUE, val |-> n]
NotNum == [num |-> FALSE, val |-> 0]

\* 'Transfer from Revolut user', 'From Savings Account', 'To Savings Account'
TransferFromRevolutUser ==
    <<84, 114, 97, 110, 115, 102, 101, 114, 32, 102, 114, 111, 109, 32, 82,
      101, 118, 111, 108, 117, 116, 32, 117, 115, 101, 114>>
FromSavingsAccount ==
    <<70, 114, 111, 109, 32, 83, 97, 118, 105, 110, 103, 115, 32, 65, 99, 99,
      111, 117, 110, 116>>
ToSavingsAccount ==
    <<84, 111, 32, 83, 97, 118, 105, 110, 103, 115, 32, 65, 99, 99, 111, 117,
      110, 116>>
ToPrefix == <<84, 111, 32>>     \* 'To '

\* the code points of a currency code
CurrencyChars(currency) ==
    CASE currency = "HUF" -> <<72, 85, 70>>
      [] currency = "EUR" -> <<69, 85, 82>>

\* the Hide rules of load_statement
HideRule(row, currency) ==
    \/ IsSubstring(lower(ToPrefix \o CurrencyChars(currency)), lower(row.Description))
    \/ row.Description = TransferFromRevolutUser
    \/ (row.Product = "Current" /\ row.Description = FromSavingsAccount)
    \/ (row.Product = "Current" /\ row.Description = ToSavingsAccount)

\* a mutant: INTEREST rows are kept and marked Hide
load_statement_hide_interest(file, categories) ==
    IF ~(RequiredColumns \subseteq file.columns) THEN NoneVal
    ELSE LET NotInterest(r) == TRUE
             GoodDates(r) == TRUE
             rows == SelectSeq(SelectSeq(file.rows, NotInterest), GoodDates)
         IN  IF \E i \in DOMAIN rows : ~rows[i].StartedDate.ok THEN NoneVal
             ELSE LET NullBalance(r) == ~r.Balance.num
                      HasBalance(r) == r.Balance.num
                      dropped_rows == SelectSeq(rows, NullBalance)
                      kept == SelectSeq(rows, HasBalance)
                      df == [i \in DOMAIN kept |->
                               FullRow(kept[i].Type, kept[i].Product,
                                       kept[i].StartedDate.val, kept[i].Description,
                                       kept[i].Balance.val, kept[i].Amount,
                                       Uncategorized,
                                       kept[i].Type = "INTEREST" \/ HideRule(kept[i], file.currency))]
                  IN  IF FALSE THEN NoneVal
                      ELSE [kind |-> "df",
                            df |-> categorize_transactions(df, categories),
                            warnings |-> [i \in DOMAIN dropped_rows |->
                                             <<dropped_rows[i].Description,
                                               dropped_rows[i].Amount>>]]

\* a mutant: a Balance that is not a number rejects the statement
load_statement_reject_balance(file, categories) ==
    IF ~(RequiredColumns \subseteq file.columns) THEN NoneVal
    ELSE LET NotInterest(r) == r.Type # "INTEREST"
             GoodDates(r) == TRUE
             rows == SelectSeq(SelectSeq(file.rows, NotInterest), GoodDates)
         IN  IF \E i \in DOMAIN rows : ~rows[i].StartedDate.ok THEN NoneVal
             ELSE LET NullBalance(r) == ~r.Balance.num
                      HasBalance(r) == r.Balance.num
                      dropped_rows == SelectSeq(rows, NullBalance)
                      kept == SelectSeq(rows, HasBalance)
                      df == [i \in DOMAIN kept |->
                               FullRow(kept[i].Type, kept[i].Product,
                                       kept[i].StartedDate.val, kept[i].Description,
                                       kept[i].Balance.val, kept[i].Amount,
                                       Uncategorized,
                                       HideRule(kept[i], file.currency))]
                  IN  IF dropped_rows # <<>> THEN NoneVal
                      ELSE [kind |-> "df",
                            df |-> categorize_transactions(df, categories),
                            warnings |-> [i \in DOMAIN dropped_rows |->
                                             <<dropped_rows[i].Description,
                                               dropped_rows[i].Amount>>]]

\* a mutant: a row whose Started Date does not parse is left out
load_statement_skip_bad_dates(file, categories) ==
    IF ~(RequiredColumns \subseteq file.columns) THEN NoneVal
    ELSE LET NotInterest(r) == r.Type # "INTEREST"
             GoodDates(r) == r.StartedDate.ok
             rows == SelectSeq(SelectSeq(file.rows, NotInterest), GoodDates)
         IN  IF FALSE THEN NoneVal
             ELSE LET NullBalance(r) == ~r.Balance.num
                      HasBalance(r) == r.Balance.num
                      dropped_rows == SelectSeq(rows, NullBalance)
                      kept == SelectSeq(rows, HasBalance)
                      df == [i \in DOMAIN kept |->
                               FullRow(kept[i].Type, kept[i].Product,
                                       kept[i].StartedDate.val, kept[i].Description,
                                       kept[i].Balance.val, kept[i].Amount,
                                       Uncategorized,
                                       HideRule(kept[i], file.currency))]
                  IN  IF FALSE THEN NoneVal
                      ELSE [kind |-> "df",
                            df |-> categorize_transactions(df, categories),
                            warnings |-> [i \in DOMAIN dropped_rows |->
                                             <<dropped_rows[i].Description,
                                               dropped_rows[i].Amount>>]]

\* load_statement(file) under st.session_state.categories = categories: None
\* (any exception, or st.stop()), or the parsed frame and the warnings
load_statement(file, categories) ==
    IF ~(RequiredColumns \subseteq file.columns) THEN NoneVal
    ELSE LET NotInterest(r) == r.Type # "INTEREST"
             rows == SelectSeq(file.rows, NotInterest)
         IN  IF \E i \in DOMAIN rows : ~rows[i].StartedDate.ok THEN NoneVal
             ELSE LET NullBalance(r) == ~r.Balance.num
                      HasBalance(r) == r.Balance.num
                      dropped_rows == SelectSeq(rows, NullBalance)
                      kept == SelectSeq(rows, HasBalance)
                      df == [i \in DOMAIN kept |->
                               FullRow(kept[i].Type, kept[i].Product,
                                       kept[i].StartedDate.val, kept[i].Description,
                                       kept[i].Balance.val, kept[i].Amount,
                                       Uncategorized, HideRule(kept[i], file.currency))]
                  IN  [kind |-> "df",
                       df |-> categorize_transactions(df, categories),
                       warnings |-> [i \in DOMAIN dropped_rows |->
                                        <<dropped_rows[i].Description,
                                          dropped_rows[i].Amount>>]]

(***************************************************************************)
(* SpecParse: load_statement applied to a statement under a Category Store.*)
(***************************************************************************)
ToHUF == ToPrefix \o CurrencyChars("HUF")

ParseRows ==
    {RawRow("CARD_PAYMENT", GoodDate(1), <<cc>>, "Current", 1, Num(5)),
     RawRow("CARD_PAYMENT", GoodDate(2), <<cC, cSp>>, "Current", 2, NotNum),
     RawRow("EXCHANGE", GoodDate(1), ToHUF, "Current", 3, Num(5)),
     RawRow("CARD_PAYMENT", BadDate, <<cc>>, "Current", 1, Num(5)),
     RawRow("INTEREST", GoodDate(1), <<cc>>, "Savings", 1, Num(6)),
     RawRow("INTEREST", GoodDate(1), ToHUF, "Savings", 1, NotNum),
     RawRow("INTEREST", BadDate, <<cc>>, "Savings", 1, Num(6))}

ParseColumns == {RequiredColumns} \cup {RequiredColumns \ {c} : c \in RequiredColumns}

ParseFiles ==
    {[columns |-> columns, rows |-> rows, currency |-> "HUF"] :
        columns \in ParseColumns, rows \in SeqsUpTo(ParseRows, MaxParseRows)}

ParseStores == {DefaultCategories, <<Cat(Uncategorized, <<>>), Cat("A", <<<<cc>>>>)>>}

InitParse ==
    /\ call \in [op : {"parse"}, file : ParseFiles, categories : ParseStores]
    /\ ret = NoRet
    /\ IdleMain

Parse ==
    /\ call.op = "parse" /\ ret.op = "none"
    /\ ret' = [op |-> "parsed", result |-> load_statement(call.file, call.categories)]
    /\ UNCHANGED <<call, mainVars>>

NextParse == Parse

SpecParse == InitParse /\ [][NextParse]_vars

\* the rows of the statement that are not interest payments
NotInterestRows(file) ==
    LET NotInterest(r) == r.Type # "INTEREST" IN SelectSeq(file.rows, NotInterest)

\* C18: no row whose Type is 'INTEREST' appears in the output of load_statement,
\* whatever its other fields, and such rows are removed, not marked Hide: the
\* output has no more rows than the statement has rows of other types.
C18_InterestExcluded ==
    (ret.op = "parsed" /\ ret.result # NoneVal) =>
        /\ \A i \in DOMAIN ret.result.df : ret.result.df[i].Type # "INTEREST"
        /\ Len(ret.result.df) <= Len(NotInterestRows(call.file))

\* C18 witness: a statement with an interest row whose description matches a Hide
\* rule and a card payment, parsed into a ledger of one row.
C18_Witness ==
    /\ ret.op = "parsed" /\ ret.result # NoneVal
    /\ \E i \in DOMAIN call.file.rows :
          /\ call.file.rows[i].Type = "INTEREST"
          /\ call.file.rows[i].Description = ToHUF
    /\ Len(ret.result.df) = 1

\* the statement has every required column, and the dates of its rows that are
\* not interest payments parse
OtherwiseValid(file) ==
    /\ RequiredColumns \subseteq file.columns
    /\ \A i \in DOMAIN NotInterestRows(file) : NotInterestRows(file)[i].StartedDate.ok

load_main_dataframe(sess, fs, okRead, okKey) ==
    IF sess.is_guest THEN NoneVal
    ELSE LET csv_content ==
                 read_encrypted_github_file(sess, fs,
                     get_user_files(sess.username).dataframe, sess.username,
                     okRead, okKey)
         IN  IF Truthy(csv_content) /\ csv_content.kind = "text"
                    /\ csv_content.doc.kind = "csv"
             THEN [kind |-> "df", df |-> csv_content.doc.body]
             ELSE NoneVal

NoWrite(fs) == [ok |-> FALSE, files |-> fs, writes |-> <<>>]

\* save_main_dataframe(df)
save_main_dataframe(sess, fs, df, iv, okKey, okWrite) ==
    IF sess.is_guest THEN NoWrite(fs)
    ELSE write_encrypted_github_file(sess, fs, get_user_files(sess.username).dataframe,
                                     to_csv(df), sess.username, iv, okKey, okWrite)

\* save_categories()
save_categories(sess, fs, iv, okKey, okWrite) ==
    IF sess.is_guest THEN NoWrite(fs)
    ELSE write_encrypted_github_file(sess, fs, get_user_files(sess.username).categories,
                                     json_dumps(CategoriesDoc(sess.categories)),
                                     sess.username, iv, okKey, okWrite)

\* categories[category].append(keyword)
CatAppend(categories, category, keyword) ==
    [i \in DOMAIN categories |->
        IF categories[i].name = category
        THEN Cat(category, Append(categories[i].keywords, keyword))
        ELSE categories[i]]

\* add_keyword_to_category(category, keyword): what it returns ("True", "False",
\* or "KeyError" when it raises), the session's categories and the storage
add_keyword_to_category(sess, fs, category, keyword, iv, okKey, okWrite) ==
    LET kw == strip(keyword) IN
    IF kw # <<>> /\ kw \notin Range(CatGet(sess.categories, category))
    THEN IF category \notin CatNames(sess.categories)
         THEN [result |-> "KeyError", categories |-> sess.categories, files |-> fs,
               writes |-> <<>>]
         ELSE LET cats == CatAppend(sess.categories, category, kw)
                  saved == save_categories([sess EXCEPT !.categories = cats], fs,
                                           iv, okKey, okWrite)
              IN  [result |-> "True", categories |-> cats, files |-> saved.files,
                   writes |-> saved.writes]
    ELSE [result |-> "False", categories |-> sess.categories, files |-> fs,
          writes |-> <<>>]


(***************************************************************************)
(* change_password.  The outcomes of its API calls are a record oks:       *)
(* readUsers, then per blob read1/write1 (the ledger) and read2/write2     *)
(* (the categories), then writeUsers.  salt is the salt hash_password      *)
(* draws for the new hash.                                                 *)
(***************************************************************************)
\* one round of the loop over files_to_reencrypt; st: the storage, the writes
\* so far, and whether the function has returned False
ReKeyBlob(sess, st, file_path, old_key, new_key, iv, okRead, okWrite) ==
    IF st.aborted THEN st
    ELSE LET encrypted_content == read_github_file(sess, st.files, file_path, okRead)
         IN  IF ~Truthy(encrypted_content) THEN st
             ELSE LET decrypted_content == decrypt_data(encrypted_content, old_key)
                  IN  IF decrypted_content = NoneVal
                      THEN [st EXCEPT !.aborted = TRUE]
                      ELSE CHOOSE next \in
                               {[files |-> w.files, writes |-> st.writes \o w.writes,
                                 aborted |-> ~w.ok] :
                                   w \in {write_github_file(
                                              sess, st.files, file_path,
                                              encrypt_data(decrypted_content, new_key, iv),
                                              okWrite)}} : TRUE

\* change_password(username, old_password, new_password, confirm_password)
change_password(sess, fs, username, old_password, new_password, confirm_password, salt, iv, oks) ==
    LET failed == [ok |-> FALSE, files |-> fs, writes |-> <<>>]
        users_content == read_github_file(sess, fs, UsersPath, oks.readUsers)
    IN
    IF username = "" \/ old_password = "" \/ new_password = "" THEN failed
    ELSE IF new_password # confirm_password THEN failed
    ELSE IF ~Truthy(users_content) THEN failed
    ELSE IF users_content.kind # "text" \/ users_content.doc.kind # "users" THEN failed
    ELSE IF username \notin DOMAIN users_content.doc.body THEN failed
    ELSE LET users == users_content.doc.body
             stored_password == users[username].password
         IN
         IF ~verify_password(stored_password, old_password) THEN failed
         ELSE LET old_key == derive_key_from_password(username, stored_password)
                  new_hashed_password == hash_password(new_password, salt)
                  new_key == derive_key_from_password(username, new_hashed_password)
                  paths == get_user_files(username)
              IN  CHOOSE out \in
                      {IF st2.aborted
                       THEN [ok |-> FALSE, files |-> st2.files, writes |-> st2.writes]
                       ELSE CHOOSE saved \in
                                {[ok |-> w.ok, files |-> w.files,
                                  writes |-> st2.writes \o w.writes] :
                                    w \in {write_github_file(
                                               sess, st2.files, UsersPath,
                                               json_dumps(UsersDoc(
                                                   [users EXCEPT ![username].password =
                                                                     new_hashed_password])),
                                               oks.writeUsers)}} : TRUE :
                          st2 \in
                              {ReKeyBlob(sess, st1, paths.categories, old_key, new_key, iv,
                                         oks.read2, oks.write2) :
                                  st1 \in
                                      {ReKeyBlob(sess,
                                                 [files |-> fs, writes |-> <<>>,
                                                  aborted |-> FALSE],
                                                 paths.dataframe, old_key, new_key, iv,
                                                 oks.read1, oks.write1)}}} : TRUE

\* change_password_page, the "Change Password" button
ChangePassword(username, old_password, new_password, confirm_password, salt, iv, oks) ==
    /\ ~session.logged_in
    /\ \E changed \in {change_password(session, files, username, old_password,
                                       new_password, confirm_password, salt, iv, oks)} :
          /\ files' = changed.files
          /\ last' = [op |-> "change_password", username |-> username,
                      old_password |-> old_password, new_password |-> new_password,
                      confirm_password |-> confirm_password, salt |-> salt,
                      oks |-> oks, result |-> changed.ok, writes |-> changed.writes,
                      before |-> files]
    /\ UNCHANGED <<session, call, ret>>


(***************************************************************************)
(* SpecRekey: alice and the admin are registered; alice's ledger and       *)
(* categories are each absent, stored under her key, or stored as legacy   *)
(* plaintext; passwords are changed on the Change Password page, alice     *)
(* logs in and out and saves her ledger.                                   *)
(***************************************************************************)
LedgerText == to_csv(<<Row(1, <<cc>>, 1, 5, Uncategorized, FALSE)>>)
CategoriesText == json_dumps(CategoriesDoc(DefaultCategories))

\* a blob that is absent (NoFile), encrypted under key, or plaintext
BlobStates(text, key) == {NoFile, encrypt_data(text, key, 1), text}

\* the storage with path set to content, or without path when content is NoFile
WithBlob(fs, path, content) ==
    IF content = NoFile THEN fs ELSE (path :> content) @@ fs

RekeyFiles ==
    {WithBlob(WithBlob((UsersPath :> json_dumps(UsersDoc(Users0)))
                          @@ (get_user_files(Admin).categories :> CategoriesText),
                       get_user_files("alice").dataframe, ledger),
              get_user_files("alice").categories, categories) :
        ledger \in BlobStates(LedgerText, KeyAlice),
        categories \in BlobStates(CategoriesText, KeyAlice)}

\* the outcomes of the API calls of one change_password: all succeed, or one fails
AllOk ==
    [readUsers |-> TRUE, read1 |-> TRUE, write1 |-> TRUE, read2 |-> TRUE,
     write2 |-> TRUE, writeUsers |-> TRUE]

ChangeOutcomes ==
    {AllOk} \cup {[AllOk EXCEPT ![f] = FALSE] : f \in DOMAIN AllOk}

\* the salts secrets.token_hex(16) can give the new hash: any but the one in use
FreshSalts(fs, username) ==
    IF StoredHash(fs, username) = NoneVal THEN Salts
    ELSE Salts \ {StoredHash(fs, username).salt}

RekeyUsers == {"alice", Admin}

InitRekey ==
    /\ call = NoCall
    /\ ret = NoRet
    /\ session = NewSession(TRUE)
    /\ files \in RekeyFiles
    /\ last = [op |-> "none"]

\* the logged-in user's ledger saved: save_main_dataframe(df)
SaveLedger(df, iv, okKey, okWrite) ==
    /\ session.logged_in /\ ~session.is_guest
    /\ \E saved \in {save_main_dataframe(session, files, df, iv, okKey, okWrite)} :
          /\ files' = saved.files
          /\ last' = [op |-> "save", result |-> saved.ok, writes |-> saved.writes]
    /\ UNCHANGED <<session, call, ret>>

NextRekey ==
    \/ \E u \in RekeyUsers, old, new, confirm \in Passwords, oks \in ChangeOutcomes :
          \E salt \in FreshSalts(files, u) :
             ChangePassword(u, old, new, confirm, salt, 1, oks)
    \/ \E pw \in Passwords, ok \in ApiOutcomes :
          Login("alice", pw, 1, ok[1], ok[2], ok[3])
    \/ Logout
    \/ \E ok \in ApiOutcomes :
          SaveLedger(<<Row(1, <<cc>>, 1, 5, Uncategorized, FALSE)>>, 1, ok[2], ok[3])

SpecRekey == InitRekey /\ [][NextRekey]_vars

\* the paths of the blobs of a user
BlobPaths(username) ==
    {get_user_files(username).dataframe, get_user_files(username).categories}

\* the key derived from the hash committed for username, NoneVal without
CommittedKey(fs, username) ==
    IF StoredHash(fs, username) = NoneVal THEN NoneVal
    ELSE derive_key_from_password(username, StoredHash(fs, username))

\* the last change_password was given the stored password and matching new ones
Verified ==
    /\ last.new_password = last.confirm_password
    /\ StoredHash(last.before, last.username) # NoneVal
    /\ verify_password(StoredHash(last.before, last.username), last.old_password)

\* C12: during change_password, an existing blob that is legacy plaintext (it
\* does not decrypt with the old key) is encrypted with the new key and written
\* back, and the change goes on to commit.
C12_LegacyBlobReKeyed ==
    (last.op = "change_password" /\ last.oks = AllOk /\ Verified
        /\ last.username # Admin) =>
        \A path \in BlobPaths(last.username) :
            FileAt(last.before, path).kind = "text" =>
                /\ last.result
                /\ decrypt_data(FileAt(files, path), CommittedKey(files, last.username))
                      = FileAt(last.before, path)


\* the last change_password left the credential record as it was
UsersUnchanged == FileAt(files, UsersPath) = FileAt(last.before, UsersPath)

\* the blob at path is stored under the key of the hash now committed for username
UnderCommittedKey(fs, path, username) ==
    /\ FileAt(fs, path).kind = "b64"
    /\ FileAt(fs, path).of.key = CommittedKey(fs, username)

\* C13: change_password writes the new hash to the credential record only after
\* the old password was verified and every existing blob of the user was
\* re-written under the new key; when verification fails, a blob does not
\* decrypt, or the call returns False, data/users.json is as it was, and a
\* failed verification or decryption makes the call return False.
C13_NoPartialCommit ==
    last.op = "change_password" =>
        /\ ~UsersUnchanged =>
              /\ Verified
              /\ last.result
              /\ \A path \in BlobPaths(last.username) :
                    FileAt(last.before, path) # NoFile =>
                        UnderCommittedKey(files, path, last.username)
        /\ ~Verified => (~last.result /\ files = last.before)
        /\ ~last.result => UsersUnchanged
        /\ \A path \in BlobPaths(last.username) :
              ( /\ FileAt(last.before, path) # NoFile
                /\ last.oks.read1 /\ last.oks.read2
                /\ decrypt_data(FileAt(last.before, path),
                                CommittedKey(last.before, last.username)) = NoneVal )
                 => (~last.result /\ UsersUnchanged)

\* C14: whenever change_password returns False, every persisted blob of the user
\* is identical to what it was before the call.
C14_FailedChangeLeavesBlobs ==
    (last.op = "change_password" /\ ~last.result) =>
        \A path \in BlobPaths(last.username) :
            FileAt(files, path) = FileAt(last.before, path)

\* C15: after change_password returns True, every blob of the user that was
\* encrypted under the old key does not decrypt with the old key, decrypts with
\* the key derived from the new stored hash, and has the plaintext it had.
C15_ReKeyed ==
    (last.op = "change_password" /\ last.result) =>
        \A path \in BlobPaths(last.username) :
            LET old_key == CommittedKey(last.before, last.username)
                plain == decrypt_data(FileAt(last.before, path), old_key)
            IN  plain # NoneVal =>
                    /\ decrypt_data(FileAt(files, path), old_key) = NoneVal
                    /\ decrypt_data(FileAt(files, path),
                                    CommittedKey(files, last.username)) = plain

\* C16: after any sequence of completed operations of alice, every encrypted blob
\* of hers decrypts with the key derived from her username and the password hash
\* committed in data/users.json.
C16_KeyFollowsCredential ==
    \A path \in BlobPaths("alice") :
        FileAt(files, path).kind = "b64" =>
            decrypt_data(FileAt(files, path), CommittedKey(files, "alice")) # NoneVal


(***************************************************************************)
(* register_user(username, password, confirm_password); salt is the one    *)
(* secrets.token_hex(16) gives the new hash.                               *)
(***************************************************************************)
\* a mutant: the username 'guest' is not reserved
register_user_anyname(sess, fs, username, password, confirm_password, salt, okRead, okWrite) ==
    IF username = "" \/ password = "" THEN NoWrite(fs)
    ELSE IF password # confirm_password THEN NoWrite(fs)
    ELSE LET users_content == read_github_file(sess, fs, UsersPath, okRead)
             users == IF Truthy(users_content) /\ users_content.kind = "text"
                         /\ users_content.doc.kind = "users"
                      THEN users_content.doc.body
                      ELSE <<>>
         IN  IF username \in DOMAIN users THEN NoWrite(fs)
             ELSE write_github_file(
                      sess, fs, UsersPath,
                      json_dumps(UsersDoc((username :> [password |-> hash_password(password, salt)])
                                              @@ users)),
                      okWrite)

register_user(sess, fs, username, password, confirm_password, salt, okRead, okWrite) ==
    IF username = "" \/ password = "" THEN NoWrite(fs)
    ELSE IF password # confirm_password THEN NoWrite(fs)
    ELSE IF username = Guest THEN NoWrite(fs)
    ELSE LET users_content == read_github_file(sess, fs, UsersPath, okRead)
             users == IF Truthy(users_content) /\ users_content.kind = "text"
                         /\ users_content.doc.kind = "users"
                      THEN users_content.doc.body
                      ELSE <<>>
         IN  IF username \in DOMAIN users THEN NoWrite(fs)
             ELSE write_github_file(
                      sess, fs, UsersPath,
                      json_dumps(UsersDoc((username :> [password |-> hash_password(password, salt)])
                                              @@ users)),
                      okWrite)

\* login_page, the Register form
Register(username, password, confirm_password, salt, okRead, okWrite) ==
    /\ ~session.logged_in
    /\ \E registered \in {register_user(session, files, username, password,
                                        confirm_password, salt, okRead, okWrite)} :
          /\ files' = registered.files
          /\ last' = [op |-> "register", username |-> username, password |-> password,
                      confirm_password |-> confirm_password, okRead |-> okRead,
                      result |-> registered.ok, writes |-> registered.writes,
                      before |-> files]
    /\ UNCHANGED <<session, call, ret>>

(***************************************************************************)
(* SpecAdmin: the storage holds the admin's account and blobs; accounts    *)
(* are registered, the admin and the registered users log in, save their   *)
(* ledger and categories and change their password, and the admin's blobs  *)
(* are read with read_encrypted_github_file.                               *)
(***************************************************************************)
AdminUsers == [u \in {Admin} |-> [password |-> HashAdmin]]

AdminFiles ==
    {WithBlob((UsersPath :> json_dumps(UsersDoc(AdminUsers)))
                  @@ (get_user_files(Admin).categories :> CategoriesText),
              get_user_files(Admin).dataframe, ledger) :
        ledger \in {NoFile, LedgerText}}

\* the usernames typed into the forms
AdminNames == {Admin, "main"}

InitAdmin ==
    /\ call = NoCall
    /\ ret = NoRet
    /\ session = NewSession(TRUE)
    /\ files \in AdminFiles
    /\ last = [op |-> "none"]

\* the logged-in user's categories saved: save_categories()
SaveCategories(iv, okKey, okWrite) ==
    /\ session.logged_in /\ ~session.is_guest
    /\ \E saved \in {save_categories(session, files, iv, okKey, okWrite)} :
          /\ files' = saved.files
          /\ last' = [op |-> "save_categories", result |-> saved.ok,
                      writes |-> saved.writes]
    /\ UNCHANGED <<session, call, ret>>

NextAdmin ==
    \/ \E u \in AdminNames, okRead, okWrite \in BOOLEAN :
          Register(u, "pw1", "pw1", "s1", okRead, okWrite)
    \/ \E u \in AdminNames, ok \in ApiOutcomes :
          Login(u, "pw1", 1, ok[1], ok[2], ok[3])
    \/ Logout
    \/ \E ok \in ApiOutcomes :
          SaveLedger(<<Row(1, <<cc>>, 1, 5, Uncategorized, FALSE)>>, 1, ok[2], ok[3])
    \/ \E ok \in ApiOutcomes : SaveCategories(1, ok[2], ok[3])
    \/ \E u \in AdminNames, new \in Passwords, oks \in ChangeOutcomes :
          \E salt \in FreshSalts(files, u) :
             ChangePassword(u, "pw1", new, new, salt, 1, oks)
    \/ \E path \in BlobPaths(Admin), okRead, okKey \in BOOLEAN :
          ReadEncrypted(path, Admin, okRead, okKey)

SpecAdmin == InitAdmin /\ [][NextAdmin]_vars

\* C17: after any sequence of operations the blobs at the admin's fixed paths are
\* stored as plaintext, never as the output of encrypt_data, and
\* read_encrypted_github_file for username 'admin' returns the stored content
\* as it is.
C17_AdminBlobsPlaintext ==
    /\ \A path \in BlobPaths(Admin) : FileAt(files, path).kind # "b64"
    /\ (last.op = "read" /\ last.username = Admin /\ last.result # NoneVal) =>
           last.result = FileAt(files, last.path)

\* the usernames with a credential record in data/users.json
RegisteredUsers(fs) ==
    LET users_content == FileAt(fs, UsersPath)
    IN  IF users_content.kind = "text" /\ users_content.doc # NoDoc
               /\ users_content.doc.kind = "users"
        THEN DOMAIN users_content.doc.body
        ELSE {}

\* C25: get_user_files gives any two distinct registered usernames (the admin
\* included) disjoint ledger and category paths, and no step of a session of
\* another user changes a blob at the admin's paths.
C25_PathsIsolateUsers ==
    /\ [](\A u1, u2 \in RegisteredUsers(files) \cup {Admin} :
             u1 # u2 => BlobPaths(u1) \cap BlobPaths(u2) = {})
    /\ [][(session.username # Admin /\ session.username # NoUser) =>
             \A path \in BlobPaths(Admin) : FileAt(files', path) = FileAt(files, path)]_vars


(***************************************************************************)
(* The Customize Data page (customize_data_page).  Every run of the page   *)
(* loads the ledger anew; a handler is one run with the button pressed.    *)
(***************************************************************************)
\* the frame the page works on: the guest's frame, or load_main_dataframe()
PageFrame(sess, fs, okRead, okKey) ==
    IF sess.is_guest
    THEN (IF sess.guest_dataframe = NoneVal THEN NoneVal
          ELSE [kind |-> "df", df |-> sess.guest_dataframe.df])
    ELSE load_main_dataframe(sess, fs, okRead, okKey)

\* the "Add category" button with the name typed in
AddCategory(new_category, iv, okRead, okKey, okWrite) ==
    /\ session.logged_in
    /\ LET frame == PageFrame(session, files, okRead, okKey)
       IN  IF frame = NoneVal THEN FALSE ELSE frame.df # <<>>
    /\ IF new_category # "" /\ new_category \notin CatNames(session.categories)
       THEN LET cats == Append(session.categories, Cat(new_category, <<>>))
                sess == [session EXCEPT !.categories = cats]
                saved == save_categories(sess, files, iv, okKey, okWrite)
            IN  /\ session' = sess
                /\ files' = saved.files
                /\ last' = [op |-> "add_category", result |-> "True",
                            writes |-> saved.writes]
       ELSE /\ last' = [op |-> "add_category", result |-> "False", writes |-> <<>>]
            /\ UNCHANGED <<session, files>>
    /\ UNCHANGED <<call, ret>>

\* the row labels of the filtered frame in the order of
\* sort_values(by='Date', ascending=False)
RECURSIVE SortByDateDesc(_, _)
SortByDateDesc(df, S) ==
    IF S = {} THEN <<>>
    ELSE LET first == CHOOSE i \in S :
                          \A j \in S : \/ df[i].Date > df[j].Date
                                       \/ (df[i].Date = df[j].Date /\ i <= j)
         IN  <<first>> \o SortByDateDesc(df, S \ {first})

\* the rows the filters of the page let through: a date range and the sign of
\* the amount ('Credits': Amount < 0, 'Debits': Amount > 0)
FilteredRows(df, lo, hi, transaction_type) ==
    {i \in DOMAIN df :
        /\ df[i].Date >= lo /\ df[i].Date <= hi
        /\ CASE transaction_type = "ALL" -> TRUE
             [] transaction_type = "Credits" -> df[i].Amount < 0
             [] transaction_type = "Debits" -> df[i].Amount > 0}

\* one round of the loop of "Apply Changes": the edited row at label idx applied
\* to the categories, the storage, the frame and the writes so far; raised: a
\* KeyError in add_keyword_to_category ended the run
ApplyRow(sess, st, idx, row, iv, okKey, okWrite) ==
    IF st.raised THEN st
    ELSE IF row.Category = st.df[idx].Category
         THEN [st EXCEPT !.df[idx].Hide = row.Hide, !.df[idx].Amount = row.Amount]
         ELSE CHOOSE next \in
                  {IF added.result = "KeyError"
                   THEN [st EXCEPT !.raised = TRUE]
                   ELSE [categories |-> added.categories,
                         files |-> added.files,
                         df |-> [st.df EXCEPT ![idx].Category = row.Category,
                                              ![idx].Hide = row.Hide,
                                              ![idx].Amount = row.Amount],
                         writes |-> st.writes \o added.writes,
                         raised |-> FALSE] :
                      added \in {add_keyword_to_category(
                                    [sess EXCEPT !.categories = st.categories], st.files,
                                    row.Category, st.df[idx].Description,
                                    iv, okKey, okWrite)}} : TRUE

\* the loop over the edited rows, in the order of the displayed frame
ApplyLoop(sess, fs, main_df, order, edited, iv, okKey, okWrite) ==
    LET F[n \in 0..Len(order)] ==
            IF n = 0
            THEN [categories |-> sess.categories, files |-> fs, df |-> main_df,
                  writes |-> <<>>, raised |-> FALSE]
            ELSE CHOOSE next \in
                     {ApplyRow(sess, st, order[n], edited[order[n]], iv, okKey, okWrite) :
                         st \in {F[n - 1]}} : TRUE
    IN  F[Len(order)]

\* what the user can leave in the rows of the data editor: in Category an option
\* of the selectbox or the cleared cell (""), the Hide checkbox and the amount as
\* displayed
Edits(displayed, S, categories) ==
    {edited \in [S -> [Category : CatNames(categories) \cup {""},
                       Hide : {displayed[i].Hide : i \in S},
                       Amount : {displayed[i].Amount : i \in S}]] :
        \A i \in S : /\ edited[i].Amount = displayed[i].Amount
                     /\ edited[i].Hide = displayed[i].Hide}

\* the "Apply Changes" button
ApplyChanges(lo, hi, transaction_type, iv, okRead, okKey, okWrite) ==
    /\ session.logged_in
    /\ \E frame \in {PageFrame(session, files, okRead, okKey)} :
       /\ IF frame = NoneVal THEN FALSE ELSE frame.df # <<>>
       /\ \E S \in {FilteredRows(frame.df, lo, hi, transaction_type)},
             filtered_df \in {categorize_transactions(frame.df, session.categories)} :
          \E edited \in Edits(filtered_df, S, session.categories),
             order \in {SortByDateDesc(frame.df, S)} :
          \E done \in {ApplyLoop(session, files, frame.df, order, edited,
                                 iv, okKey, okWrite)} :
             LET sess == [session EXCEPT !.categories = done.categories] IN
             IF done.raised
             THEN /\ session' = sess
                  /\ files' = done.files
                  /\ last' = [op |-> "apply", result |-> "KeyError",
                              writes |-> done.writes]
             ELSE \E final_df \in {categorize_transactions(done.df, done.categories)} :
                  IF session.is_guest
                  THEN /\ session' = [sess EXCEPT !.guest_dataframe =
                                         [kind |-> "df", df |-> final_df]]
                       /\ files' = done.files
                       /\ last' = [op |-> "apply", result |-> "True",
                                   writes |-> done.writes, shown |-> filtered_df,
                                   edited |-> edited, saved_df |-> final_df]
                  ELSE \E saved \in {save_main_dataframe(sess, done.files, final_df,
                                                         iv, okKey, okWrite)} :
                       /\ session' = sess
                       /\ files' = saved.files
                       /\ last' = [op |-> "apply", result |-> "True",
                                   writes |-> done.writes \o saved.writes,
                                   shown |-> filtered_df, edited |-> edited,
                                   saved_df |-> final_df]
    /\ UNCHANGED <<call, ret>>

\* the rows of the ledger blob of a user, read with the key the blob was written
\* under; <<>> when there is no ledger
PersistedLedger(fs, username) ==
    LET content == FileAt(fs, get_user_files(username).dataframe)
        plain == IF content.kind = "b64" THEN bytes_decode(content.of.msg) ELSE content
    IN  IF plain.kind = "text" /\ plain.doc # NoDoc /\ plain.doc.kind = "csv"
        THEN plain.doc.body
        ELSE <<>>

\* the statement uploader of the Customize Data page, for logged-in users, with
\* load_statement called on the file as app.py calls it.  (customize_data.py holds
\* the same statements but passes load_statement a second argument, which the
\* function does not take.)
Upload(file, iv, okRead, okKey, okWrite) ==
    /\ session.logged_in /\ ~session.is_guest
    \* with a ledger of no rows the date slider has no dates and the run ends there
    /\ LET frame == load_main_dataframe(session, files, okRead, okKey)
       IN  IF frame = NoneVal THEN TRUE ELSE frame.df # <<>>
    /\ LET frame == load_main_dataframe(session, files, okRead, okKey)
           parsed == load_statement(file, session.categories)
           merged == merge_dataframes(frame.df, parsed.df)
           updated_df == IF frame # NoneVal THEN merged.df ELSE parsed.df
           num_new_rows == IF frame # NoneVal THEN merged.num_new_rows
                           ELSE Len(parsed.df)
           saved == save_main_dataframe(session, files, updated_df, iv, okKey, okWrite)
           before == PersistedLedger(files, session.username)
       IN  IF parsed = NoneVal
           THEN /\ last' = [op |-> "upload", result |-> "None", writes |-> <<>>,
                            before |-> before, num_new_rows |-> 0, file |-> file]
                /\ UNCHANGED files
           ELSE /\ Len(updated_df) <= MaxLedgerRows
                /\ files' = saved.files
                /\ last' = [op |-> "upload",
                            result |-> IF saved.ok THEN "saved" ELSE "failed",
                            writes |-> saved.writes, before |-> before,
                            num_new_rows |-> num_new_rows, file |-> file]
    /\ UNCHANGED <<session, call, ret>>

\* the guest's uploader: the statement parsed becomes the session's frame
GuestUpload(file) ==
    /\ session.logged_in /\ session.is_guest
    /\ LET parsed == load_statement(file, session.categories) IN
       IF parsed = NoneVal
       THEN /\ last' = [op |-> "guest_upload", result |-> "None", writes |-> <<>>,
                        file |-> file]
            /\ UNCHANGED session
       ELSE /\ session' = [session EXCEPT !.guest_dataframe =
                              [kind |-> "df", df |-> parsed.df]]
            /\ last' = [op |-> "guest_upload", result |-> "True", writes |-> <<>>,
                        file |-> file]
    /\ UNCHANGED <<files, call, ret>>

\* a call of add_keyword_to_category(category, keyword) in the session
AddKeyword(category, keyword, iv, okKey, okWrite) ==
    /\ session.logged_in
    /\ LET added == add_keyword_to_category(session, files, category, keyword,
                                            iv, okKey, okWrite)
       IN  /\ \A c \in Range(added.categories) : Len(c.keywords) <= MaxKeywords
           /\ session' = [session EXCEPT !.categories = added.categories]
           /\ files' = added.files
           /\ last' = [op |-> "add_keyword", result |-> added.result,
                       writes |-> added.writes, category |-> category,
                       keyword |-> keyword, before |-> session.categories]
    /\ UNCHANGED <<call, ret>>

(***************************************************************************)
(* Spec: alice, a registered user, or a guest logs in and uploads          *)
(* statements.                                                             *)
(***************************************************************************)

UploadRows ==
    {RawRow("CARD_PAYMENT", GoodDate(1), <<cc>>, "Current", 1, Num(5)),
     RawRow("CARD_PAYMENT", GoodDate(1), <<cC, cSp>>, "Current", 1, Num(5)),
     RawRow("INTEREST", GoodDate(1), <<cc>>, "Current", 1, Num(6)),
     RawRow("CARD_PAYMENT", GoodDate(1), <<cc>>, "Current", 1, NotNum)}

UploadFiles ==
    {[columns |-> RequiredColumns, rows |-> rows, currency |-> "HUF"] :
        rows \in SeqsUpTo(UploadRows, MaxUploadRows)}
    \cup {[columns |-> RequiredColumns \ {"Balance"}, rows |-> <<>>, currency |-> "HUF"],
          [columns |-> RequiredColumns, currency |-> "HUF",
           rows |-> <<RawRow("CARD_PAYMENT", BadDate, <<cc>>, "Current", 1, Num(5))>>]}

Init ==
    /\ call = NoCall
    /\ ret = NoRet
    /\ session = NewSession(TRUE)
    /\ files = (UsersPath :> json_dumps(UsersDoc(Users0)))
    /\ last = [op |-> "none"]

Next ==
    \/ \E pw \in Passwords, ok \in ApiOutcomes :
          Login("alice", pw, 1, ok[1], ok[2], ok[3])
    \/ GuestLogin
    \/ Logout
    \/ \E file \in UploadFiles, ok \in ApiOutcomes :
          Upload(file, 1, ok[1], ok[2], ok[3])
    \/ \E file \in UploadFiles : GuestUpload(file)

Spec == Init /\ [][Next]_vars

\* C3: the ledger is append-only under upload: every row of the persisted ledger
\* before an upload is in it afterwards, the ledger is no shorter, and the
\* reported number of new rows is not negative.
C3_LedgerAppendOnly ==
    last.op = "upload" =>
        LET after == PersistedLedger(files, session.username) IN
        /\ Range(last.before) \subseteq Range(after)
        /\ Len(after) >= Len(last.before)
        /\ last.num_new_rows >= 0



\* C21: in every reachable state, every persisted ledger or category blob of the
\* registered user alice, created or written by the program, is the output of
\* encrypt_data, never plaintext.
C21_EncryptedAtRest ==
    \A path \in BlobPaths("alice") :
        FileAt(files, path) # NoFile => FileAt(files, path).kind = "b64"

(***************************************************************************)
(* SpecReject: alice or a guest uploads statements that parse and          *)
(* statements that load_statement rejects, over a ledger that is absent    *)
(* or persisted by an earlier upload.                                      *)
(***************************************************************************)
GoodRow == RawRow("CARD_PAYMENT", GoodDate(1), <<cc>>, "Current", 1, Num(5))
OtherGoodRow == RawRow("CARD_PAYMENT", GoodDate(1), <<cC, cSp>>, "Current", 1, Num(5))
BadDateRow == RawRow("CARD_PAYMENT", BadDate, <<cc>>, "Current", 1, Num(5))
BadDateInterestRow == RawRow("INTEREST", BadDate, <<cc>>, "Savings", 1, Num(6))

RejectFiles ==
    {[columns |-> RequiredColumns, rows |-> rows, currency |-> "HUF"] :
        rows \in {<<GoodRow>>, <<OtherGoodRow>>, <<BadDateRow>>,
                  <<OtherGoodRow, BadDateRow>>, <<BadDateInterestRow, OtherGoodRow>>}}
    \cup {[columns |-> RequiredColumns \ {c}, rows |-> <<OtherGoodRow>>,
           currency |-> "HUF"] : c \in {"Balance", "Started Date", "Amount"}}

NextReject ==
    \/ \E pw \in Passwords, ok \in ApiOutcomes :
          Login("alice", pw, 1, ok[1], ok[2], ok[3])
    \/ GuestLogin
    \/ Logout
    \/ \E file \in RejectFiles, ok \in ApiOutcomes :
          Upload(file, 1, ok[1], ok[2], ok[3])
    \/ \E file \in RejectFiles : GuestUpload(file)

SpecReject == Init /\ [][NextReject]_vars

\* the statement misses a required column
MissingColumn(file) == ~(RequiredColumns \subseteq file.columns)

\* the last upload performed no merge and no write: no ledger came back from
\* load_statement, nothing was written, and the persisted ledger is as it was
UploadRejected ==
    /\ last.result = "None"
    /\ last.writes = <<>>
    /\ last.op = "upload" => PersistedLedger(files, session.username) = last.before

\* C20 as claimed: when a required column is missing or a Started Date of the
\* statement cannot be parsed, load_statement returns no ledger and the upload
\* performs no merge and no persistence write.
C20_AnyBadDateRejects ==
    (last.op \in {"upload", "guest_upload"}
        /\ ( \/ MissingColumn(last.file)
             \/ \E i \in DOMAIN last.file.rows : ~last.file.rows[i].StartedDate.ok ))
    => UploadRejected

\* C20 as amended: when a required column is missing or the Started Date of a row
\* that is not an interest row cannot be parsed, load_statement returns no ledger
\* and the upload performs no merge and no persistence write; an interest row is
\* removed before the dates are parsed, whatever its date.
C20_FatalParseRejects ==
    (last.op \in {"upload", "guest_upload"}
        /\ ( \/ MissingColumn(last.file)
             \/ \E i \in DOMAIN NotInterestRows(last.file) :
                   ~NotInterestRows(last.file)[i].StartedDate.ok ))
    => UploadRejected

\* C20 witness: alice has a persisted ledger and uploads a statement of a good
\* row and a row whose date does not parse; no ledger comes back.
C20_Witness ==
    /\ last.op = "upload"
    /\ last.before # <<>>
    /\ Len(last.file.rows) = 2
    /\ \E i \in DOMAIN last.file.rows :
          last.file.rows[i].Type # "INTEREST" /\ ~last.file.rows[i].StartedDate.ok
    /\ UploadRejected

(***************************************************************************)
(* SpecStore: alice, who has a ledger, adds categories on the page, and    *)
(* add_keyword_to_category is called in her session.                       *)
(***************************************************************************)
NewCategoryNames == {"", "A"}
KeywordCategories == {"", "A", "B", Uncategorized}
KeywordInputs == {<<>>, <<cSp>>, <<cc>>, <<cC, cSp>>}

\* a ledger alice uploaded earlier, as save_main_dataframe stored it
LedgerFiles ==
    (UsersPath :> json_dumps(UsersDoc(Users0)))
    @@ (get_user_files("alice").dataframe :>
            encrypt_data(to_csv(<<Row(1, <<cc>>, 1, 5, Uncategorized, FALSE),
                                  Row(1, <<cC, cSp>>, 1, 5, Uncategorized, FALSE)>>),
                         KeyAlice, 1))

InitStore ==
    /\ call = NoCall
    /\ ret = NoRet
    /\ session = NewSession(TRUE)
    /\ files = LedgerFiles
    /\ last = [op |-> "none"]

NextStore ==
    \/ \E pw \in Passwords, ok \in ApiOutcomes :
          Login("alice", pw, 1, ok[1], ok[2], ok[3])
    \/ Logout
    \/ \E name \in NewCategoryNames, ok \in ApiOutcomes :
          AddCategory(name, 1, ok[1], ok[2], ok[3])
    \/ \E category \in KeywordCategories, keyword \in KeywordInputs,
          ok \in ApiOutcomes :
          AddKeyword(category, keyword, 1, ok[2], ok[3])

SpecStore == InitStore /\ [][NextStore]_vars

\* C6: add_keyword_to_category returns False, leaves the Category Store as it was
\* and writes nothing when the trimmed keyword is empty, the category is not in
\* the store, or the trimmed keyword is already in the category's list; otherwise
\* it appends the trimmed keyword and returns True; and no keyword list ever holds
\* a string twice.
C6_AddKeywordNoOp ==
    /\ last.op = "add_keyword" =>
          LET kw == strip(last.keyword)
              noop == \/ kw = <<>>
                      \/ last.category \notin CatNames(last.before)
                      \/ kw \in Range(CatGet(last.before, last.category))
          IN  IF noop
              THEN /\ last.result = "False"
                   /\ session.categories = last.before
                   /\ last.writes = <<>>
              ELSE /\ last.result = "True"
                   /\ session.categories = CatAppend(last.before, last.category, kw)
    /\ \A i \in DOMAIN session.categories :
          \A j, k \in DOMAIN session.categories[i].keywords :
             session.categories[i].keywords[j] = session.categories[i].keywords[k]
                => j = k


(***************************************************************************)
(* SpecPage: alice, who has a ledger, adds categories and applies edits on *)
(* the page.                                                               *)
(***************************************************************************)
PageDates == {1}
TransactionTypes == {"ALL", "Credits"}

NextPage ==
    \/ \E pw \in Passwords, ok \in ApiOutcomes :
          Login("alice", pw, 1, ok[1], ok[2], ok[3])
    \/ Logout
    \/ \E name \in NewCategoryNames, ok \in ApiOutcomes :
          AddCategory(name, 1, ok[1], ok[2], ok[3])
    \/ \E lo, hi \in PageDates, tt \in TransactionTypes, ok \in ApiOutcomes :
          ApplyChanges(lo, hi, tt, 1, ok[1], ok[2], ok[3])

SpecPage == InitStore /\ [][NextPage]_vars

\* C7: one "Apply Changes" issues at most one write of the Category Store,
\* whatever number of rows had their category changed.
C7_OneStoreWritePerApply ==
    last.op = "apply" =>
        Cardinality({i \in DOMAIN last.writes :
                        last.writes[i] = get_user_files(session.username).categories}) <= 1



\* C24: after an Apply Changes in which the user changed a row's category to an
\* existing category C, the ledger that is saved has category C on that row.
C24_RecategorizationTakesEffect ==
    (last.op = "apply" /\ last.result = "True") =>
        \A i \in DOMAIN last.edited :
            ( /\ last.edited[i].Category # last.shown[i].Category
              /\ last.edited[i].Category # "" )
            => last.saved_df[i].Category = last.edited[i].Category

(***************************************************************************)
(* SpecGuest: a guest uploads statements, adds categories and keywords and *)
(* applies edits; accounts are registered from the login page; alice logs  *)
(* in and uses the same page.                                              *)
(***************************************************************************)
GuestFiles ==
    {[columns |-> RequiredColumns, rows |-> rows, currency |-> "HUF"] :
        rows \in {<<GoodRow>>, <<OtherGoodRow, BadDateRow>>}}

NextGuest ==
    \/ GuestLogin
    \/ Login("alice", "pw1", 1, TRUE, TRUE, TRUE)
    \/ Logout
    \/ \E u \in {Guest, "main"}, okWrite \in BOOLEAN :
          Register(u, "pw1", "pw1", "s1", TRUE, okWrite)
    \/ \E file \in GuestFiles : GuestUpload(file)
    \/ \E name \in NewCategoryNames, okWrite \in BOOLEAN :
          AddCategory(name, 1, TRUE, TRUE, okWrite)
    \/ \E category \in {"A", Uncategorized}, keyword \in {<<cc>>, <<cSp>>},
          okWrite \in BOOLEAN :
          AddKeyword(category, keyword, 1, TRUE, okWrite)
    \/ \E tt \in TransactionTypes, okWrite \in BOOLEAN :
          ApplyChanges(1, 1, tt, 1, TRUE, TRUE, okWrite)

SpecGuest == InitStore /\ [][NextGuest]_vars

\* C22: while the session is in guest mode no upload, category addition, keyword
\* addition or Apply Changes writes to the storage, which stays as it is; and
\* data/users.json never holds a record for the username 'guest'.
C22_GuestWritesNothing ==
    /\ [](StoredHash(files, Guest) = NoneVal)
    /\ [][session.is_guest => (files' = files /\ last'.writes = <<>>)]_vars

\* C22 witness: a guest who uploaded a statement, added category A and applied a
\* re-categorization: the session's frame carries the category.
C22_Witness ==
    /\ session.is_guest
    /\ last.op = "apply" /\ last.result = "True"
    /\ session.guest_dataframe # NoneVal
    /\ \E i \in DOMAIN session.guest_dataframe.df :
          session.guest_dataframe.df[i].Category = "A"


(***************************************************************************)
(* SpecRead: alice's ledger blob is absent, encrypted under her key,       *)
(* encrypted under an older key, or a legacy plaintext that looks like     *)
(* base64; alice, bob or a guest logs in and read_encrypted_github_file is *)
(* called for the blobs.                                                   *)
(***************************************************************************)
StaleKey == derive_key_from_password("alice", hash_password("pw2", "s2"))
LegacyLedger == Text(<<>>, [kind |-> "csv", body |-> <<>>, looks64 |-> TRUE])

ReadFiles ==
    {WithBlob(AccessFiles, get_user_files("alice").dataframe, ledger) :
        ledger \in {NoFile, encrypt_data(LedgerText, KeyAlice, 1),
                    encrypt_data(LedgerText, StaleKey, 1), LegacyLedger}}

ReadUsers == {"alice", "bob"}

InitRead ==
    /\ call = NoCall
    /\ ret = NoRet
    /\ session \in {NewSession(repo) : repo \in BOOLEAN}
    /\ files \in ReadFiles
    /\ last = [op |-> "none"]

NextRead ==
    \/ \E u \in ReadUsers, pw \in Passwords, ok \in ApiOutcomes :
          Login(u, pw, 1, ok[1], ok[2], ok[3])
    \/ GuestLogin
    \/ Logout
    \/ \E u \in ReadUsers, path \in BlobPaths("alice") \cup BlobPaths("bob"),
          okRead, okKey \in BOOLEAN :
          ReadEncrypted(path, u, okRead, okKey)

SpecRead == InitRead /\ [][NextRead]_vars

\* the last read was made by the owner named in the call, who is not the admin
OwnerRead ==
    /\ last.op = "read"
    /\ last.username # Admin
    /\ last.identity = last.username

\* the key of the last read: the one derived from the committed hash when
\* data/users.json could be read
ReadKey == IF last.okKey THEN CommittedKey(files, last.username) ELSE NoneVal

\* C23 as claimed: for a non-admin owner the read returns the content as it is
\* when it does not look encrypted, the plaintext when it decrypts with the
\* current key, the content unchanged when it looks encrypted and does not
\* decrypt; and it returns None only when unauthorized, when the storage is
\* unavailable (no repository, or the API call fails), or when no key can be
\* derived.
C23_NoneOnlyUnavailableOrNoKey ==
    OwnerRead =>
        (last.result = NoneVal =>
            \/ ~session.github_repo
            \/ ~last.okRead
            \/ ReadKey = NoneVal)

\* C23 as amended: as claimed, and it also returns None when the blob does not
\* exist; a missing key gives None only for a content that looks encrypted.
C23_ReadFallback ==
    OwnerRead =>
        LET content == FileAt(files, last.path) IN
        IF ~session.github_repo \/ ~last.okRead \/ content = NoFile
        THEN last.result = NoneVal
        ELSE IF ~is_encrypted_data(content) THEN last.result = content
        ELSE IF ReadKey = NoneVal THEN last.result = NoneVal
        ELSE IF decrypt_data(content, ReadKey) # NoneVal
             THEN last.result = decrypt_data(content, ReadKey)
             ELSE last.result = content

\* C23 witness: alice reads her ledger blob, which is encrypted under an older
\* key, and gets the stored content back.
C23_Witness ==
    /\ OwnerRead
    /\ last.username = "alice"
    /\ FileAt(files, last.path) = encrypt_data(LedgerText, StaleKey, 1)
    /\ ReadKey = KeyAlice
    /\ last.result = FileAt(files, last.path)


(***************************************************************************)
(* Calls that run at the same time, each in a session of its own: call     *)
(* holds, per call, the point it has reached (pc) and what it has read so  *)
(* far; ret holds the results.  One step is one read or one write of the   *)
(* storage, in the order of the code.                                      *)
(***************************************************************************)
ServerSession == NewSession(TRUE)

Goto(p, pc) == call' = [call EXCEPT ![p].pc = pc]
Return(p, result) == ret' = [ret EXCEPT ![p] = result]

\* register_user: users_content = read_github_file("data/users.json")
RegReadUsers(p) ==
    /\ call[p].pc = "reg_read"
    /\ LET users_content == read_github_file(ServerSession, files, UsersPath, TRUE)
           users == IF Truthy(users_content) THEN users_content.doc.body ELSE <<>>
       IN  IF call[p].username \in DOMAIN users
           THEN Goto(p, "done") /\ Return(p, "False")
           ELSE /\ call' = [call EXCEPT ![p].pc = "reg_write", ![p].users = users]
                /\ UNCHANGED ret
    /\ UNCHANGED mainVars

\* register_user: users[username] = {...}; write_github_file("data/users.json")
RegWriteUsers(p) ==
    /\ call[p].pc = "reg_write"
    /\ LET hashed_password == hash_password(call[p].password, call[p].salt)
           w == write_github_file(
                    ServerSession, files, UsersPath,
                    json_dumps(UsersDoc((call[p].username :> [password |-> hashed_password])
                                            @@ call[p].users)),
                    TRUE)
       IN  files' = w.files
    /\ Goto(p, "done") /\ Return(p, "True")
    /\ UNCHANGED <<session, last>>

\* change_password: the read of data/users.json and the verification
ChgReadUsers(p) ==
    /\ call[p].pc = "chg_read"
    /\ LET users_content == read_github_file(ServerSession, files, UsersPath, TRUE)
           users == IF Truthy(users_content) THEN users_content.doc.body ELSE <<>>
       IN  IF /\ call[p].username \in DOMAIN users
              /\ verify_password(users[call[p].username].password, call[p].old_password)
           THEN /\ call' = [call EXCEPT ![p].pc = "chg_rekey1", ![p].users = users]
                /\ UNCHANGED ret
           ELSE Goto(p, "done") /\ Return(p, "False")
    /\ UNCHANGED mainVars

\* change_password: one round of the loop over the user's blobs
ChgReKey(p, pc, file_path, next_pc) ==
    /\ call[p].pc = pc
    /\ LET username == call[p].username
           stored_password == call[p].users[username].password
           old_key == derive_key_from_password(username, stored_password)
           new_key == derive_key_from_password(
                          username, hash_password(call[p].new_password, call[p].salt))
           st == ReKeyBlob(ServerSession,
                           [files |-> files, writes |-> <<>>, aborted |-> FALSE],
                           file_path, old_key, new_key, 1, TRUE, TRUE)
       IN  /\ files' = st.files
           /\ IF st.aborted
              THEN Goto(p, "done") /\ Return(p, "False")
              ELSE Goto(p, next_pc) /\ UNCHANGED ret
    /\ UNCHANGED <<session, last>>

\* change_password: the new hash written to data/users.json
ChgWriteUsers(p) ==
    /\ call[p].pc = "chg_write"
    /\ LET username == call[p].username
           new_hashed_password == hash_password(call[p].new_password, call[p].salt)
           w == write_github_file(
                    ServerSession, files, UsersPath,
                    json_dumps(UsersDoc([call[p].users EXCEPT
                                            ![username].password = new_hashed_password])),
                    TRUE)
       IN  files' = w.files
    /\ Goto(p, "done") /\ Return(p, "True")
    /\ UNCHANGED <<session, last>>

\* the steps of one change_password call
ChgStep(p) ==
    \/ ChgReadUsers(p)
    \/ ChgReKey(p, "chg_rekey1", get_user_files(call[p].username).dataframe, "chg_rekey2")
    \/ ChgReKey(p, "chg_rekey2", get_user_files(call[p].username).categories, "chg_write")
    \/ ChgWriteUsers(p)

\* the storage without the file at path
Without(fs, path) == [q \in DOMAIN fs \ {path} |-> fs[q]]

\* delete_user_data: delete_file of the ledger blob, then of the categories blob
DelBlob(p, pc, file_path, next_pc) ==
    /\ call[p].pc = pc
    /\ files' = Without(files, file_path)
    /\ Goto(p, next_pc)
    /\ UNCHANGED <<ret, session, last>>

\* delete_user_data: users_content = read_github_file("data/users.json")
DelReadUsers(p) ==
    /\ call[p].pc = "del_read"
    /\ LET users_content == read_github_file(ServerSession, files, UsersPath, TRUE)
           users == IF Truthy(users_content) THEN users_content.doc.body ELSE <<>>
       IN  IF call[p].username \in DOMAIN users
           THEN /\ call' = [call EXCEPT ![p].pc = "del_write", ![p].users = users]
                /\ UNCHANGED ret
           ELSE Goto(p, "done") /\ Return(p, "False")
    /\ UNCHANGED mainVars

\* delete_user_data: del users[username]; write_github_file("data/users.json")
DelWriteUsers(p) ==
    /\ call[p].pc = "del_write"
    /\ LET users == call[p].users
           w == write_github_file(
                    ServerSession, files, UsersPath,
                    json_dumps(UsersDoc([u \in DOMAIN users \ {call[p].username} |->
                                            users[u]])),
                    TRUE)
       IN  files' = w.files
    /\ Goto(p, "done") /\ Return(p, "True")
    /\ UNCHANGED <<session, last>>

\* the steps of one delete_user_data call
DelStep(p) ==
    \/ DelBlob(p, "del_ledger", get_user_files(call[p].username).dataframe, "del_categories")
    \/ DelBlob(p, "del_categories", get_user_files(call[p].username).categories, "del_read")
    \/ DelReadUsers(p)
    \/ DelWriteUsers(p)

(***************************************************************************)
(* SpecUsers: register_user('carol'), change_password('alice') and         *)
(* delete_user_data('bob') run at the same time.                           *)
(***************************************************************************)
InitUsers ==
    /\ call = [reg |-> [pc |-> "reg_read", username |-> "carol", password |-> "pw1",
                        salt |-> "s1", users |-> <<>>],
               chg |-> [pc |-> "chg_read", username |-> "alice", old_password |-> "pw1",
                        new_password |-> "pw2", salt |-> "s2", users |-> <<>>],
               del |-> [pc |-> "del_ledger", username |-> "bob", users |-> <<>>]]
    /\ ret = [reg |-> "none", chg |-> "none", del |-> "none"]
    /\ session = ServerSession
    /\ files \in RekeyFiles
    /\ last = [op |-> "none"]

NextUsers ==
    \/ RegReadUsers("reg")
    \/ RegWriteUsers("reg")
    \/ ChgStep("chg")
    \/ DelStep("del")

SpecUsers == InitUsers /\ [][NextUsers]_vars

\* C26: when the three calls have ended, every call that reported success has
\* its effect in data/users.json: carol's record verifies her password, alice's
\* hash is the new one, bob has no record; and the admin's record is as it was.
C26_NoLostCredentialUpdate ==
    (\A p \in DOMAIN call : call[p].pc = "done") =>
        /\ ret.reg = "True" =>
              /\ "carol" \in RegisteredUsers(files)
              /\ verify_password(StoredHash(files, "carol"), "pw1")
        /\ ret.chg = "True" => StoredHash(files, "alice") = hash_password("pw2", "s2")
        /\ ret.del = "True" => "bob" \notin RegisteredUsers(files)
        /\ StoredHash(files, Admin) = HashAdmin


(***************************************************************************)
(* SpecRace: alice is logged in and saves her ledger and her categories    *)
(* while a change_password('alice') started from the login page of another *)
(* session runs.  Her blobs start absent or encrypted under her key.       *)
(***************************************************************************)
RaceFiles == {fs \in RekeyFiles : \A path \in BlobPaths("alice") : FileAt(fs, path).kind # "text"}

RaceLedgers ==
    {<<Row(1, <<cc>>, 1, amount, Uncategorized, FALSE)>> : amount \in {5, 6}}

InitRace ==
    /\ call = [chg |-> [pc |-> "chg_read", username |-> "alice", old_password |-> "pw1",
                        new_password |-> "pw2", salt |-> "s2", users |-> <<>>]]
    /\ ret = [chg |-> "none"]
    /\ session = [NewSession(TRUE) EXCEPT !.logged_in = TRUE, !.username = "alice",
                                          !.categories = DefaultCategories]
    /\ files \in RaceFiles
    /\ last = [op |-> "none"]

NextRace ==
    \/ ChgStep("chg")
    \/ \E df \in RaceLedgers, iv \in {1, 2} : SaveLedger(df, iv, TRUE, TRUE)
    \/ \E iv \in {1, 2} : SaveCategories(iv, TRUE, TRUE)

SpecRace == InitRace /\ [][NextRace]_vars

\* C27: when change_password('alice') has ended, with saves of alice's session
\* before, between and after its steps, every blob of alice decrypts with the
\* key derived from the hash committed in data/users.json.
C27_SaveDuringChangeStaysReadable ==
    call.chg.pc = "done" =>
        \A path \in BlobPaths("alice") :
            FileAt(files, path) # NoFile =>
                decrypt_data(FileAt(files, path), CommittedKey(files, "alice")) # NoneVal


(***************************************************************************)
(* SpecRetry: change_password('alice') called again and again from the     *)
(* login page.  An attempt may meet a failing storage call; RetryChange is *)
(* the attempt the user keeps making once the storage answers: the current *)
(* password, matching new passwords, every storage call succeeding.  Weak  *)
(* fairness of RetryChange: such an attempt is made over and over.         *)
(***************************************************************************)
FailingChange ==
    \E old, new \in Passwords, oks \in ChangeOutcomes \ {AllOk} :
        \E salt \in FreshSalts(files, "alice") :
            ChangePassword("alice", old, new, new, salt, 1, oks)

RetryChange ==
    \E old, new \in Passwords :
        /\ StoredHash(files, "alice") # NoneVal
        /\ verify_password(StoredHash(files, "alice"), old)
        /\ \E salt \in FreshSalts(files, "alice") :
              ChangePassword("alice", old, new, new, salt, 1, AllOk)

InitRetry ==
    /\ call = NoCall
    /\ ret = NoRet
    /\ session = NewSession(TRUE)
    /\ files \in RaceFiles
    /\ last = [op |-> "none"]

NextRetry == FailingChange \/ RetryChange

SpecRetry == InitRetry /\ [][NextRetry]_vars /\ WF_vars(RetryChange)

\* a change_password given the current password and matching new passwords, with
\* every storage call succeeding, has returned True
RetrySucceeded ==
    /\ last.op = "change_password"
    /\ last.oks = AllOk
    /\ Verified
    /\ last.result

\* the last attempt met no failing storage call
StorageAnswers == last.op = "change_password" /\ last.oks = AllOk

\* C28: with alice registered and her blobs absent or encrypted under her key,
\* whatever attempts failed part-way before, if from some point on no storage
\* call fails then an attempt made with the current password and matching new
\* passwords eventually returns True.
C28_RetryEventuallySucceeds == <>[]StorageAnswers => <>RetrySucceeded


(***************************************************************************)
(* delete_user_data(username).  o gives, per storage call, whether it      *)
(* succeeds: o.del1 and o.del2 the get_contents and delete_file of the two *)
(* blobs, o.read and o.write the read and the write of data/users.json.    *)
(* A blob that is absent makes get_contents raise "Not Found", which is    *)
(* not counted as an error; any other failure is.                          *)
(***************************************************************************)
\* a mutant: a blob that could not be deleted is not reported
delete_blob_unreported(st, file_path, what, ok) ==
    IF ok /\ FileAt(st.files, file_path) # NoFile
    THEN [st EXCEPT !.files = Without(st.files, file_path)]
    ELSE st

\* one of the two try blocks: get_contents, delete_file, errors.append
delete_blob(st, file_path, what, ok) ==
    IF ~ok THEN [st EXCEPT !.errors = Append(st.errors, "Failed to delete " \o what)]
    ELSE IF FileAt(st.files, file_path) = NoFile THEN st
    ELSE [st EXCEPT !.files = Without(st.files, file_path)]

delete_user_data(sess, fs, username, o) ==
    IF username = "" \/ username = Admin
    THEN [ok |-> FALSE, message |-> <<"Cannot delete admin user or invalid username">>,
          files |-> fs]
    ELSE IF ~sess.github_repo
    THEN [ok |-> FALSE, message |-> <<"GitHub storage not configured">>, files |-> fs]
    ELSE LET user_files == get_user_files(username)
             st1 == delete_blob([files |-> fs, errors |-> <<>>],
                                user_files.dataframe, "dataframe", o.del1)
             st2 == delete_blob(st1, user_files.categories, "categories", o.del2)
             users_content == read_github_file(sess, st2.files, UsersPath, o.read)
             st3 == IF ~Truthy(users_content)
                    THEN [st2 EXCEPT !.errors = Append(st2.errors, "Users.json not found")]
                    ELSE IF users_content.doc.kind # "users"
                    THEN [st2 EXCEPT !.errors =
                                         Append(st2.errors, "Failed to process users.json")]
                    ELSE IF username \notin DOMAIN users_content.doc.body
                    THEN [st2 EXCEPT !.errors =
                                         Append(st2.errors, "User not found in users.json")]
                    ELSE LET users == users_content.doc.body
                             w == write_github_file(
                                      sess, st2.files, UsersPath,
                                      json_dumps(UsersDoc([u \in DOMAIN users \ {username} |->
                                                              users[u]])),
                                      o.write)
                         IN  IF w.ok THEN [st2 EXCEPT !.files = w.files]
                             ELSE [st2 EXCEPT !.errors =
                                                  Append(st2.errors,
                                                         "Failed to update users.json")]
         IN  IF st3.errors # <<>>
             THEN [ok |-> FALSE, message |-> st3.errors, files |-> st3.files]
             ELSE [ok |-> TRUE, message |-> <<"User data deleted successfully">>,
                   files |-> st3.files]

\* a call of delete_user_data(username)
DeleteUserData(username, o) ==
    /\ \E deleted \in {delete_user_data(session, files, username, o)} :
          /\ files' = deleted.files
          /\ last' = [op |-> "delete", username |-> username, result |-> deleted.ok,
                      message |-> deleted.message, before |-> files]
    /\ UNCHANGED <<session, call, ret>>

(***************************************************************************)
(* SpecDelete: accounts are deleted and registered again, the storage      *)
(* connected or not, alice's blobs present or absent.                      *)
(***************************************************************************)
DeleteOutcomes == [del1 : BOOLEAN, del2 : BOOLEAN, read : BOOLEAN, write : BOOLEAN]

DeleteNames == {"", Admin, "alice", "bob"}

InitDelete ==
    /\ call = NoCall
    /\ ret = NoRet
    /\ session \in {NewSession(TRUE), NewSession(FALSE)}
    /\ files \in RekeyFiles
    /\ last = [op |-> "none"]

NextDelete ==
    \/ \E username \in DeleteNames, o \in DeleteOutcomes : DeleteUserData(username, o)
    \/ \E username \in DeleteNames : Register(username, "pw1", "pw1", "s1", TRUE, TRUE)

SpecDelete == InitDelete /\ [][NextDelete]_vars

\* what of the account is in the storage: its ledger blob, its categories blob,
\* its credential record
AccountParts(fs, username) ==
    {what \in {"dataframe", "categories"} :
        FileAt(fs, get_user_files(username)[what]) # NoFile}
    \cup (IF StoredHash(fs, username) # NoneVal THEN {"users.json"} ELSE {})

\* the part is named by one of the errors of the message
Named(message, what) ==
    \E i \in DOMAIN message :
        \/ message[i] = "Failed to delete " \o what
        \/ what = "users.json" /\ message[i] \in {"Users.json not found",
                                                   "Failed to process users.json",
                                                   "User not found in users.json",
                                                   "Failed to update users.json"}

\* C29: delete_user_data refuses 'admin' and the empty username and leaves the
\* storage as it was; when it returns True, nothing of the account is left: no
\* credential record, no ledger blob, no categories blob; when it returns False,
\* either the storage is as it was or every part of the account that is left is
\* named by the message.
C29_DeleteCompleteOrReported ==
    last.op = "delete" =>
        /\ last.username \in {"", Admin} => ~last.result /\ files = last.before
        /\ last.result => AccountParts(files, last.username) = {}
        /\ ~last.result =>
              \/ files = last.before
              \/ \A what \in AccountParts(files, last.username) :
                    Named(last.message, what)

\* an account with both blobs and a record was deleted
C29_Witness ==
    /\ last.op = "delete"
    /\ last.result
    /\ AccountParts(last.before, last.username) = {"dataframe", "categories", "users.json"}


(***************************************************************************)
(* SpecRegister: register_user called from the login page with usernames   *)
(* that are empty, reserved, taken and free, the storage calls succeeding  *)
(* or failing.                                                             *)
(***************************************************************************)
RegisterNames == {"", Guest, "alice", "carol"}

InitRegister ==
    /\ call = NoCall
    /\ ret = NoRet
    /\ session = NewSession(TRUE)
    /\ files \in RekeyFiles
    /\ last = [op |-> "none"]

NextRegister ==
    \E username \in RegisterNames, password \in Passwords \cup {""},
       confirm_password \in Passwords, salt \in Salts, okRead, okWrite \in BOOLEAN :
        Register(username, password, confirm_password, salt, okRead, okWrite)

SpecRegister == InitRegister /\ [][NextRegister]_vars

\* the credential records of data/users.json
Records(fs) == [u \in RegisteredUsers(fs) |-> StoredHash(fs, u)]

\* C30: register_user returns False and writes nothing when the username or the
\* password is empty, the passwords differ, the username is 'guest' or already
\* has a credential record; when it returns True, data/users.json holds the
\* records it held before, unchanged, and one new record for the username, whose
\* hash verifies against the given password and no other.
C30_RegistrationKeepsAccounts ==
    last.op = "register" =>
        /\ ( \/ last.username = "" \/ last.password = ""
             \/ last.password # last.confirm_password
             \/ last.username = Guest
             \/ last.username \in RegisteredUsers(last.before) )
           => ~last.result /\ files = last.before
        /\ last.result =>
              /\ last.username \notin RegisteredUsers(last.before)
              /\ RegisteredUsers(files) = RegisteredUsers(last.before) \cup {last.username}
              /\ \A u \in RegisteredUsers(last.before) :
                    Records(files)[u] = Records(last.before)[u]
              /\ \A pw \in Passwords \cup {""} :
                    verify_password(StoredHash(files, last.username), pw)
                        <=> pw = last.password

====
